---- MODULE Spec2Model ----
(***************************************************************************)
(* Local package state machine of the skilzy client: the tracking file     *)
(* skilzy.json (tracker.py), the install and sync workflows (actions.py)   *)
(* and the part of the registry client they call (client.py).              *)
(*                                                                         *)
(* Strings that the code splits are sequences of tokens, "/" being the     *)
(* separator token: "al/pdf" is <<"al", "/", "pdf">>.  Filesystem paths    *)
(* are sequences of components relative to the project root, <<>> being    *)
(* the project root itself.                                                *)
(***************************************************************************)
EXTENDS Integers, Sequences, FiniteSets, TLC

VARIABLES
    manifest,   \* content of <root>/skilzy.json, or Missing / Corrupt
    files,      \* regular files below the project root: path -> content
    dirs,       \* directories below the project root (the root always exists)
    latest,     \* registry: the version every skill lists first
    sync,       \* the running sync_skills call: loop position, tally, and
                \* how each entry processed so far was counted
    calls,      \* registry / installer calls made by the current operation
    result,     \* how the last step ended
    ops         \* operations started so far

vars == <<manifest, files, dirs, latest, sync, calls, result, ops>>

----------------------------------------------------------------------------
(* Bounds of the model *)

MaxVersion == 2

MaxOps == 2

MaxTrackerOps == 2

----------------------------------------------------------------------------
(* Values *)

SchemaVersion == "1.0"

\* skilzy.json: absent, not parseable as JSON, or a document
Missing == [state |-> "missing", version |-> "", skills |-> << >>]

Corrupt == [state |-> "corrupt", version |-> "", skills |-> << >>]

Doc(version, skills) == [state |-> "ok", version |-> version, skills |-> skills]

\* skilzy.json holding bytes that are not UTF-8
Undecodable == [state |-> "undecodable", version |-> "", skills |-> << >>]

\* skilzy.json holding valid JSON whose top level is not an object ("[]")
NotObject == [state |-> "notobject", version |-> "", skills |-> << >>]

Sep == "/"
Root == << >>
NoAuthor == << >>

\* the default of add_skill's optional arguments (dependencies, author)
None == <<"None">>
MarkerFile == "skill.json"
DocFile == "SKILL.md"
UserFile == "old.txt"
UserContent == [kind |-> "user", author |-> << >>, name |-> << >>, version |-> 0]

\* content of a file that came out of the archive of (author, name, version)
Pkg(author, name, version) ==
    [kind |-> "pkg", author |-> author, name |-> name, version |-> version]

\* content of the downloaded archive file itself
Archive(author, name, version, whole) ==
    [kind |-> IF whole THEN "archive" ELSE "partial",
     author |-> author, name |-> name, version |-> version]

----------------------------------------------------------------------------
(* Strings and paths *)

HasSep(s) == \E i \in 1..Len(s) : s[i] = Sep

FirstSep(s) == CHOOSE i \in 1..Len(s) : s[i] = Sep /\ \A j \in 1..(i - 1) : s[j] # Sep

\* str.split('/', 1) on a string that contains a separator
SplitFirst(s) ==
    [author |-> SubSeq(s, 1, FirstSep(s) - 1),
     name   |-> SubSeq(s, FirstSep(s) + 1, Len(s))]

RECURSIVE PathParts(_)
\* pathlib: the components of a string used as a path ("a/b" -> a, b)
PathParts(s) ==
    IF s = << >> THEN << >>
    ELSE IF Head(s) = Sep THEN PathParts(Tail(s))
    ELSE <<Head(s)>> \o PathParts(Tail(s))

IsPrefix(p, q) == Len(p) <= Len(q) /\ SubSeq(q, 1, Len(p)) = p

Parent(p) == SubSeq(p, 1, Len(p) - 1)

Last(p) == p[Len(p)]

\* f"{name}.tmp.skill" as path components below the install directory
TmpName(c) ==
    CASE c = "pdf" -> "pdf.tmp.skill"
      [] c = "ocr" -> "ocr.tmp.skill"
      [] c = "fmt" -> "fmt.tmp.skill"
      [] c = "x" -> "x.tmp.skill"
      [] OTHER -> ".tmp.skill"

TmpParts(name) ==
    LET parts == PathParts(name) IN
    IF parts = << >> THEN <<TmpName("")>>
    ELSE Parent(parts) \o <<TmpName(Last(parts))>>

----------------------------------------------------------------------------
(* Filesystem: a world w has fields manifest, files, dirs, calls, and steps, *)
(* the steps the running operation has taken so far, in order              *)

Step(w, s) == [w EXCEPT !.steps = Append(w.steps, s)]

Exists(w, p) == p = Root \/ p \in w.dirs \/ p \in DOMAIN w.files

IsDir(w, p) == p = Root \/ p \in w.dirs

Restrict(f, S) == [x \in S |-> f[x]]

\* shutil.rmtree(d): d and everything below it
RmTree(w, d) ==
    [w EXCEPT !.files = Restrict(w.files, {p \in DOMAIN w.files : ~IsPrefix(d, p)}),
              !.dirs = {p \in w.dirs : ~IsPrefix(d, p)},
              !.manifest = IF d = Root THEN Missing ELSE w.manifest]

\* Path.mkdir(parents=True, exist_ok=True)
MkDirs(w, d) ==
    [w EXCEPT !.dirs = w.dirs \cup {SubSeq(d, 1, i) : i \in 1..Len(d)}]

WriteFile(w, p, content) ==
    [w EXCEPT !.files = [x \in (DOMAIN w.files) \cup {p} |->
                            IF x = p THEN content ELSE w.files[x]]]

Unlink(w, p) ==
    [w EXCEPT !.files = Restrict(w.files, (DOMAIN w.files) \ {p})]

Children(w, d) ==
    {p \in (DOMAIN w.files) \cup w.dirs : Len(p) = Len(d) + 1 /\ IsPrefix(d, p)}

\* the files and directories strictly below d, as paths relative to d
Tree(w, d) ==
    [files |-> {<<SubSeq(p, Len(d) + 1, Len(p)), w.files[p]>> :
                    p \in {q \in DOMAIN w.files : IsPrefix(d, q) /\ q # d}},
     dirs  |-> {SubSeq(p, Len(d) + 1, Len(p)) :
                    p \in {q \in w.dirs : IsPrefix(d, q) /\ q # d}}]

----------------------------------------------------------------------------
(* Tracking store (tracker.py).  The skills mapping is a sequence of       *)
(* entries in the order of the JSON object, i.e. insertion order.          *)

Entry(key, version, path, dependencies, author) ==
    [key |-> key, version |-> version, path |-> path,
     dependencies |-> dependencies, author |-> author]

KeyIndex(skills, key) ==
    IF \E i \in 1..Len(skills) : skills[i].key = key
    THEN CHOOSE i \in 1..Len(skills) : skills[i].key = key
    ELSE 0

\* variant of TrackingFileExists: the check always passes
TrackingFileAssumed(w) == TRUE

TrackingFileExists(w) == w.manifest # Missing

\* variant of initialize_tracking_file: an existing file is reset
initialize_tracking_fileResets(w) ==
    [w EXCEPT !.manifest = Doc(SchemaVersion, << >>)]

initialize_tracking_file(w) ==
    IF ~TrackingFileExists(w)
    THEN [w EXCEPT !.manifest = Doc(SchemaVersion, << >>)]
    ELSE w

\* the exception that escapes load_skills, which catches JSONDecodeError and
\* IOError only: read_text(encoding='utf-8') raises UnicodeDecodeError, and
\* content.get raises AttributeError on a list; "none" when load_skills returns
load_error(w) ==
    CASE w.manifest = Undecodable -> "UnicodeDecodeError"
      [] w.manifest = NotObject -> "AttributeError"
      [] OTHER -> "none"

\* what load_skills returns when it returns
load_skills(w) ==
    IF ~TrackingFileExists(w) THEN << >>
    ELSE IF w.manifest = Corrupt THEN << >>
    ELSE w.manifest.skills

save_skills(w, skills) ==
    [w EXCEPT !.manifest = Doc(SchemaVersion, skills)]

\* write_text opens the file for writing, which empties it, and then writes:
\* a run killed in between leaves an empty or cut-off file
save_skillsKilled(w) == [w EXCEPT !.manifest = Corrupt]

\* variant of Upsert: the entry is added next to an earlier one of the same key
UpsertAppends(skills, e) == Append(skills, e)

\* skills[skill_name] = skill_entry: in place for a known key, appended otherwise
Upsert(skills, e) ==
    IF KeyIndex(skills, e.key) = 0 THEN Append(skills, e)
    ELSE [skills EXCEPT ![KeyIndex(skills, e.key)] = e]

\* SkillTracker.add_skill: the world afterwards (unchanged when load_skills raised)
add_skill(w, skill_name, version, path, dependencies, author) ==
    IF load_error(w) # "none" THEN w
    ELSE save_skills(w, Upsert(load_skills(w),
                               Entry(skill_name, version, path,
                                     IF dependencies = None THEN << >> ELSE dependencies,
                                     IF author # << >> /\ author # None
                                     THEN author ELSE NoAuthor)))

\* del skills[skill_name]
RemoveKey(skills, key) == SelectSeq(skills, LAMBDA e : e.key # key)

\* variant of remove_skill: the file is written whether or not the key was there
remove_skillAlwaysSaves(w, skill_name) ==
    [found |-> KeyIndex(load_skills(w), skill_name) # 0,
     w |-> save_skills(w, RemoveKey(load_skills(w), skill_name)),
     err |-> "none"]

\* SkillTracker.remove_skill: [found, w, err], err naming what load_skills raised
remove_skill(w, skill_name) ==
    IF load_error(w) # "none"
    THEN [found |-> FALSE, w |-> w, err |-> load_error(w)]
    ELSE IF KeyIndex(load_skills(w), skill_name) # 0
    THEN [found |-> TRUE, w |-> save_skills(w, RemoveKey(load_skills(w), skill_name)),
          err |-> "none"]
    ELSE [found |-> FALSE, w |-> w, err |-> "none"]

get_installed_skills(w) == load_skills(w)

----------------------------------------------------------------------------
(* Archive materialisation (actions.py, shared by install and sync_skills) *)

Shapes == {"flat", "nested", "clash", "nomarker", "badzip"}

\* the member files of an archive of the given shape
ArchiveFiles(shape) ==
    CASE shape = "flat" -> {<<MarkerFile>>, <<DocFile>>}
      [] shape = "nested" -> {<<"pkg", MarkerFile>>, <<"pkg", DocFile>>}
      [] shape = "clash" -> {<<"pkg", MarkerFile>>, <<"pkg", "pkg", DocFile>>}
      [] shape = "nomarker" -> {<<"README.md">>}
      [] OTHER -> {}

RECURSIVE ExtractEach(_, _, _, _)
ExtractEach(w, d, members, content) ==
    IF members = {} THEN w
    ELSE LET m == CHOOSE x \in members : TRUE IN
         ExtractEach(WriteFile(MkDirs(w, d \o Parent(m)), d \o m, content),
                     d, members \ {m}, content)

\* zf.extractall(install_dir)
ExtractAll(w, d, shape, content) == ExtractEach(w, d, ArchiveFiles(shape), content)

Markers(w, d) ==
    {p \in DOMAIN w.files : IsPrefix(d, p) /\ p # d /\ Last(p) = MarkerFile}

\* next(install_dir.rglob("skill.json"), None): the walk visits a directory
\* before its subdirectories, so a shallowest match comes first; the archive
\* shapes modelled here never hold two matches at the same depth.
FirstMarker(w, d) ==
    CHOOSE p \in Markers(w, d) : \A q \in Markers(w, d) : Len(p) <= Len(q)

\* os.rename(src, dst) of a file or a directory tree
Rename(w, src, dst) ==
    LET moved(p) == dst \o SubSeq(p, Len(src) + 1, Len(p))
        keepF == {p \in DOMAIN w.files : ~IsPrefix(src, p) /\ ~IsPrefix(dst, p)}
        srcF  == {p \in DOMAIN w.files : IsPrefix(src, p)}
    IN [w EXCEPT
          !.files = [x \in keepF \cup {moved(p) : p \in srcF} |->
                        IF x \in keepF THEN w.files[x]
                        ELSE w.files[CHOOSE p \in srcF : moved(p) = x]],
          !.dirs = {p \in w.dirs : ~IsPrefix(src, p)}
                       \cup {moved(p) : p \in {q \in w.dirs : IsPrefix(src, q)}}]

\* shutil.move(src, dst): into dst when dst is a directory, refusing an
\* existing target there; [ok, w]
Move(w, src, dst) ==
    LET real == IF IsDir(w, dst) THEN dst \o <<Last(src)>> ELSE dst IN
    IF IsDir(w, dst) /\ Exists(w, real) THEN [ok |-> FALSE, w |-> w]
    ELSE IF IsDir(w, src) /\ Exists(w, real) THEN [ok |-> FALSE, w |-> w]
    ELSE [ok |-> TRUE, w |-> Rename(w, src, real)]

RECURSIVE MoveEach(_, _, _)
MoveEach(w, items, d) ==
    IF items = {} THEN [ok |-> TRUE, w |-> w]
    ELSE LET it == CHOOSE x \in items : TRUE
             r  == Move(w, it, d \o <<Last(it)>>)
         IN IF r.ok THEN MoveEach(r.w, items \ {it}, d) ELSE r

\* the "nested directory structure" step; [ok, w]
Normalise(w, d) ==
    LET source_dir == Parent(FirstMarker(w, d)) IN
    IF source_dir = d THEN [ok |-> TRUE, w |-> w]
    ELSE LET r == MoveEach(w, Children(w, source_dir), d) IN
         IF r.ok THEN [ok |-> TRUE, w |-> RmTree(r.w, source_dir)] ELSE r

----------------------------------------------------------------------------
(* Registry client (client.py) and host installer.  What the network, the  *)
(* registry and the disk answer is the input "fault" of an operation.      *)

Call(kind, author, name, version) ==
    [call |-> kind, author |-> author, name |-> name, version |-> version]

Log(w, c) == Step([w EXCEPT !.calls = Append(w.calls, c)], c.call)

\* exception classes of errors.py: the ones derived from SkilzyError
IsSkilzyError(err) ==
    err \in {"SkilzyAPIError", "SkilzyNotFound", "SkilzyAuthenticationError",
             "SkilzyPermissionError", "SkilzyConflictError"}

\* the python dependencies the registry declares for a version
RuntimeDeps(author, name) ==
    IF author = <<"al">> /\ name = <<"pdf">> THEN <<"pypdf", "pillow">> ELSE << >>

\* the exit status of "pip install dep"
PipExit(dep, fault) ==
    IF fault = "pip_all" \/ (fault = "pip_pypdf" /\ dep = "pypdf") THEN 1 ELSE 0

RECURSIVE PipInstallStops(_, _, _)
\* variant of PipInstall: the first failure ends the loop
PipInstallStops(w, dependencies, fault) ==
    IF dependencies = << >> THEN w
    ELSE IF PipExit(Head(dependencies), fault) # 0
    THEN Log(w, Call("pip", << >>, <<Head(dependencies)>>, 1))
    ELSE PipInstallStops(Log(w, Call("pip", << >>, <<Head(dependencies)>>, 0)),
                         Tail(dependencies), fault)

RECURSIVE PipInstall(_, _, _)
\* subprocess.check_call(pip install dep) for each dep, logged with its exit
\* status; the CalledProcessError of a non-zero status is caught
PipInstall(w, dependencies, fault) ==
    IF dependencies = << >> THEN w
    ELSE PipInstall(Log(w, Call("pip", << >>, <<Head(dependencies)>>,
                                PipExit(Head(dependencies), fault))),
                    Tail(dependencies), fault)

\* SkilzyClient.get_skill_details: [err, w]
get_skill_details(w, author, name, fault) ==
    [err |-> IF fault = "details_api" THEN "SkilzyNotFound" ELSE "none",
     w   |-> Log(w, Call("details", author, name, 0))]

\* SkilzyClient.get_skill_version: [err, w]
get_skill_version(w, author, name, version, fault) ==
    [err |-> IF fault = "version_api" THEN "SkilzyAPIError" ELSE "none",
     w   |-> Log(w, Call("version", author, name, version))]

\* SkilzyClient.download_skill: [err, w].  A non-200 answer and a ConnectError
\* are raised as SkilzyAPIError; any other transport failure (a timeout while
\* streaming) escapes as it is, with part of the file written.
download_skill(w, author, name, version, output_path, fault) ==
    LET w1 == Log(MkDirs(w, Parent(output_path)),
                  Call("download", author, name, version)) IN
    CASE fault = "download_api" -> [err |-> "SkilzyAPIError", w |-> w1]
      [] fault = "download_connect" -> [err |-> "SkilzyAPIError", w |-> w1]
      [] fault = "download_io" ->
            [err |-> "TransportError",
             w |-> WriteFile(w1, output_path, Archive(author, name, version, FALSE))]
      [] OTHER ->
            [err |-> "none",
             w |-> WriteFile(w1, output_path, Archive(author, name, version, TRUE))]

\* variant of Materialise: a package without skill.json is accepted
MaterialiseAcceptsAny(w, install_dir, author, name, version, fault, shape) ==
    LET package_path == install_dir \o TmpParts(name)
        dl == download_skill(w, author, name, version, package_path, fault)
    IN IF dl.err # "none" THEN dl
       ELSE IF shape = "badzip" THEN [err |-> "BadZipFile", w |-> dl.w]
       ELSE LET w2 == Unlink(ExtractAll(dl.w, install_dir, shape,
                                        Pkg(author, name, version)),
                             package_path)
            IN IF Markers(w2, install_dir) = {}
               THEN [err |-> "none", w |-> w2]
               ELSE LET n == Normalise(w2, install_dir) IN
                    [err |-> IF n.ok THEN "none" ELSE "ShutilError", w |-> n.w]

\* download, extract, unlink, locate skill.json, normalise: [err, w]
Materialise(w, install_dir, author, name, version, fault, shape) ==
    LET package_path == install_dir \o TmpParts(name)
        dl == download_skill(w, author, name, version, package_path, fault)
    IN IF dl.err # "none" THEN dl
       ELSE IF shape = "badzip" THEN [err |-> "BadZipFile", w |-> dl.w]
       ELSE LET w2 == Unlink(Step(ExtractAll(dl.w, install_dir, shape,
                                             Pkg(author, name, version)),
                                  "extract"),
                             package_path)
            IN IF Markers(w2, install_dir) = {}
               THEN [err |-> "InvalidPackage", w |-> w2]
               ELSE LET n == Normalise(w2, install_dir) IN
                    IF n.ok THEN [err |-> "none", w |-> Step(n.w, "normalise")]
                    ELSE [err |-> "ShutilError", w |-> n.w]

\* where a run that is killed while it materialises a package can stop
KillPoints == {"download", "extract"}

\* what a run killed while it materialised into install_dir leaves there:
\* nothing catches the kill, so no except clause runs.  Killed during the
\* download it leaves part of the archive file; killed during the extraction
\* it leaves the archive file and the members written so far, here the ones
\* that precede skill.json in the archive.
Leftover(w, install_dir, author, name, version, shape, point) ==
    LET package_path == install_dir \o TmpParts(name)
        w1 == Log(MkDirs(MkDirs(w, install_dir), Parent(package_path)),
                  Call("download", author, name, version))
    IN IF point = "download"
       THEN WriteFile(w1, package_path, Archive(author, name, version, FALSE))
       ELSE ExtractEach(WriteFile(w1, package_path,
                                  Archive(author, name, version, TRUE)),
                        install_dir,
                        {m \in ArchiveFiles(shape) : Last(m) # MarkerFile},
                        Pkg(author, name, version))

----------------------------------------------------------------------------
(* How an operation ended *)

NoTally == [success |-> 0, skip |-> 0, error |-> 0]

\* variant of EmptyTally: an empty project is reported as one failure
EmptyTallyOneError == [success |-> 0, skip |-> 0, error |-> 1]

\* what sync_skills returns when nothing is tracked
EmptyTally == [success |-> 0, skip |-> 0, error |-> 0]

Res(op, status, error, at, key, dir, created) ==
    [op |-> op, status |-> status, error |-> error, at |-> at, key |-> key,
     dir |-> dir, created |-> created, tally |-> NoTally, seen |-> << >>,
     version |-> 0]

----------------------------------------------------------------------------
(* install (actions.py) *)

\* the path argument: absent, or a path that is absolute (below the project
\* root) or relative to the working directory, which is the project root
NoPath == [given |-> FALSE, absolute |-> FALSE, parts |-> << >>]

\* variant of InstallExcept: the error is re-raised without the cleanup
InstallExceptKeepsDir(w, skill_name, install_dir, err, at, created) ==
    [w   |-> w,
     res |-> Res("install", "error", err, at, skill_name, install_dir, created)]

\* the except clause of install: remove install_dir if it exists, re-raise
InstallExcept(w, skill_name, install_dir, err, at, created) ==
    [w   |-> IF Exists(w, install_dir) THEN Step(RmTree(w, install_dir), "cleanup")
             ELSE w,
     res |-> Res("install", "error", err, at, skill_name, install_dir, created)]

\* variant of InstallRecord: the entry names the first release, not the latest
InstallRecordFirstRelease(w, skill_name, author, install_dir, path, version, dependencies, cat, fault) ==
    IF ~path.absolute /\ path.given
    THEN InstallExcept(w, skill_name, install_dir, "ValueError", "relative_to", TRUE)
    ELSE IF load_error(w) # "none"
    THEN InstallExcept(w, skill_name, install_dir, load_error(w), "add_skill", TRUE)
    ELSE IF fault = "save_io"
    THEN InstallExcept(w, skill_name, install_dir, "IOError", "add_skill", TRUE)
    ELSE LET w1 == add_skill(w, skill_name, 1, install_dir, dependencies, author) IN
         IF cat /\ Exists(w1, install_dir \o <<DocFile>>) /\ fault = "cat_read"
         THEN InstallExcept(w1, skill_name, install_dir, "UnicodeError", "cat", TRUE)
         ELSE [w |-> w1,
               res |-> [Res("install", "ok", "none", "done", skill_name, install_dir, TRUE)
                           EXCEPT !.version = version]]

\* tracker.add_skill and what follows it inside the try block
InstallRecord(w, skill_name, author, install_dir, path, version, dependencies, cat, fault) ==
    IF ~path.absolute /\ path.given
    THEN InstallExcept(w, skill_name, install_dir, "ValueError", "relative_to", TRUE)
    ELSE IF load_error(w) # "none"
    THEN InstallExcept(w, skill_name, install_dir, load_error(w), "add_skill", TRUE)
    ELSE IF fault = "save_io"
    THEN InstallExcept(w, skill_name, install_dir, "IOError", "add_skill", TRUE)
    ELSE LET w1 == Step(add_skill(w, skill_name, version, install_dir, dependencies,
                                  author),
                        "add_skill") IN
         IF cat /\ Exists(w1, install_dir \o <<DocFile>>) /\ fault = "cat_read"
         THEN InstallExcept(w1, skill_name, install_dir, "UnicodeError", "cat", TRUE)
         ELSE [w |-> w1,
               res |-> [Res("install", "ok", "none", "done", skill_name, install_dir, TRUE)
                           EXCEPT !.version = version]]

\* variant of InstallTry: the target directory is created before the registry is asked
InstallTryMkdirFirst(w, registry, skill_name, author, name, install_dir, path, cat, fault, shape) ==
    LET d == get_skill_details(Step(MkDirs(w, install_dir), "mkdir"), author, name,
                               IF skill_name \in registry.skills THEN fault ELSE "details_api")
    IN IF d.err # "none"
       THEN InstallExcept(d.w, skill_name, install_dir, d.err, "details", FALSE)
       ELSE IF fault = "details_empty"
       THEN InstallExcept(d.w, skill_name, install_dir, "IndexError", "details", FALSE)
       ELSE
       LET latest_version == registry.versions[1]
           v == get_skill_version(d.w, author, name, latest_version, fault)
       IN IF v.err # "none"
          THEN InstallExcept(v.w, skill_name, install_dir, v.err, "version", FALSE)
          ELSE
          LET dependencies == RuntimeDeps(author, name)
              w3 == PipInstall(v.w, dependencies, fault)
              m  == Materialise(w3, install_dir, author, name, latest_version,
                                fault, shape)
          IN IF m.err # "none"
             THEN InstallExcept(m.w, skill_name, install_dir, m.err, "materialise", TRUE)
             ELSE InstallRecord(m.w, skill_name, author, install_dir, path,
                                latest_version, dependencies, cat, fault)

\* the try block of install
InstallTry(w, registry, skill_name, author, name, install_dir, path, cat, fault, shape) ==
    LET d == get_skill_details(w, author, name,
                               IF skill_name \in registry.skills THEN fault ELSE "details_api")
    IN IF d.err # "none"
       THEN InstallExcept(d.w, skill_name, install_dir, d.err, "details", FALSE)
       ELSE IF fault = "details_empty"
       THEN InstallExcept(d.w, skill_name, install_dir, "IndexError", "details", FALSE)
       ELSE
       LET latest_version == registry.versions[1]
           v == get_skill_version(d.w, author, name, latest_version, fault)
       IN IF v.err # "none"
          THEN InstallExcept(v.w, skill_name, install_dir, v.err, "version", FALSE)
          ELSE
          LET dependencies == RuntimeDeps(author, name)
              w3 == Step(MkDirs(PipInstall(v.w, dependencies, fault), install_dir),
                         "mkdir")
              m  == Materialise(w3, install_dir, author, name, latest_version,
                                fault, shape)
          IN IF m.err # "none"
             THEN InstallExcept(m.w, skill_name, install_dir, m.err, "materialise", TRUE)
             ELSE InstallRecord(m.w, skill_name, author, install_dir, path,
                                latest_version, dependencies, cat, fault)

\* variant of install: an existing target is replaced without overwrite
installReplacesUnasked(w, registry, skill_name, path, overwrite, cat, fault, shape) ==
    IF skill_name = << >> \/ ~HasSep(skill_name)
    THEN [w |-> w, res |-> Res("install", "error", "ValueError", "format",
                               skill_name, Root, FALSE)]
    ELSE
    LET author == SplitFirst(skill_name).author
        name == SplitFirst(skill_name).name
        w1 == IF ~TrackingFileExists(w) THEN initialize_tracking_file(w) ELSE w
        install_dir == IF path.given THEN path.parts
                       ELSE <<"skills">> \o PathParts(name)
    IN InstallTry(IF Exists(w1, install_dir) THEN RmTree(w1, install_dir) ELSE w1,
                  registry, skill_name, author, name, install_dir, path, cat,
                  fault, shape)

\* variant of install: overwrite extracts into the existing directory
installKeepsOldTree(w, registry, skill_name, path, overwrite, cat, fault, shape) ==
    IF skill_name = << >> \/ ~HasSep(skill_name)
    THEN [w |-> w, res |-> Res("install", "error", "ValueError", "format",
                               skill_name, Root, FALSE)]
    ELSE
    LET author == SplitFirst(skill_name).author
        name == SplitFirst(skill_name).name
        w1 == IF ~TrackingFileExists(w) THEN initialize_tracking_file(w) ELSE w
        install_dir == IF path.given THEN path.parts
                       ELSE <<"skills">> \o PathParts(name)
    IN IF Exists(w1, install_dir) /\ ~overwrite
       THEN [w |-> w1, res |-> Res("install", "error", "FileExistsError", "exists",
                                   skill_name, install_dir, FALSE)]
       ELSE InstallTry(w1, registry, skill_name, author, name, install_dir, path, cat,
                       fault, shape)

\* install(skill_name, path, overwrite, cat): [w, res]
install(w, registry, skill_name, path, overwrite, cat, fault, shape) ==
    IF skill_name = << >> \/ ~HasSep(skill_name)
    THEN [w |-> w, res |-> Res("install", "error", "ValueError", "format",
                               skill_name, Root, FALSE)]
    ELSE
    LET author == SplitFirst(skill_name).author
        name == SplitFirst(skill_name).name
        w1 == Step(IF ~TrackingFileExists(w)
                   THEN Step(initialize_tracking_file(w), "initialize")
                   ELSE w,
                   "exists")
        install_dir == IF path.given THEN path.parts
                       ELSE <<"skills">> \o PathParts(name)
    IN IF Exists(w1, install_dir) /\ ~overwrite
       THEN [w |-> w1, res |-> Res("install", "error", "FileExistsError", "exists",
                                   skill_name, install_dir, FALSE)]
       ELSE InstallTry(IF Exists(w1, install_dir)
                       THEN Step(RmTree(w1, install_dir), "rmtree") ELSE w1,
                       registry, skill_name, author, name, install_dir, path, cat,
                       fault, shape)

\* install killed at the given point of the materialisation: [w, res]
installKilled(w, registry, skill_name, overwrite, shape, point) ==
    LET author == SplitFirst(skill_name).author
        name == SplitFirst(skill_name).name
        install_dir == <<"skills">> \o PathParts(name)
        w1 == IF ~TrackingFileExists(w) THEN initialize_tracking_file(w) ELSE w
        w2 == IF Exists(w1, install_dir) THEN RmTree(w1, install_dir) ELSE w1
        d == get_skill_details(w2, author, name, "none")
        v == get_skill_version(d.w, author, name, registry.versions[1], "none")
        w3 == PipInstall(v.w, RuntimeDeps(author, name), "none")
    IN [w   |-> Leftover(w3, install_dir, author, name, registry.versions[1],
                         shape, point),
        res |-> Res("install", "killed", "none", point, skill_name, install_dir, TRUE)]

----------------------------------------------------------------------------
(* sync_skills (actions.py): one loop iteration *)

\* variant of NeedsInstall: the marker file is not looked for
NeedsInstallIgnoresMarker(w, force, install_dir) ==
    force \/ ~Exists(w, install_dir)

NeedsInstall(w, force, install_dir) ==
    force \/ ~Exists(w, install_dir) \/ ~Exists(w, install_dir \o <<MarkerFile>>)

\* variant of ResolveAuthor: a bare key without a stored author is not refused
ResolveAuthorNeverFails(e) ==
    IF HasSep(e.key)
    THEN [ok |-> TRUE, author |-> SplitFirst(e.key).author, name |-> SplitFirst(e.key).name]
    ELSE [ok |-> TRUE, author |-> e.author, name |-> e.key]

\* (author, name) of a tracked entry: [ok, author, name]
ResolveAuthor(e) ==
    IF HasSep(e.key)
    THEN [ok |-> TRUE, author |-> SplitFirst(e.key).author, name |-> SplitFirst(e.key).name]
    ELSE IF e.author # << >>
    THEN [ok |-> TRUE, author |-> e.author, name |-> e.key]
    ELSE [ok |-> FALSE, author |-> << >>, name |-> e.key]

\* variant of SyncExcept: the cleanup also untracks what it removed
SyncExceptUntracks(w, install_dir, err) ==
    LET kept == SelectSeq(load_skills(w), LAMBDA e : e.path # install_dir)
        w1 == save_skills(w, kept)
    IN IF IsSkilzyError(err) THEN w1
       ELSE IF Exists(w1, install_dir) THEN RmTree(w1, install_dir) ELSE w1

\* the two except clauses of the loop body: the world afterwards
SyncExcept(w, install_dir, err) ==
    IF IsSkilzyError(err) THEN w
    ELSE IF Exists(w, install_dir) THEN RmTree(w, install_dir) ELSE w

\* variant of SyncVersion: the version the registry lists first
SyncVersionLatest(e) == latest

\* version = skill_info.get("version"): the version sync downloads
SyncVersion(e) == e.version

\* the try block once (author, name) is known: [w, res]
SyncReinstall(w, force, e, author, name, fault, shape) ==
    LET install_dir == e.path
        w1 == IF Exists(w, install_dir) /\ force THEN RmTree(w, install_dir) ELSE w
        w2 == MkDirs(PipInstall(w1, e.dependencies, fault), install_dir)
        m  == Materialise(w2, install_dir, author, name, SyncVersion(e), fault, shape)
    IN IF m.err = "none"
       THEN [w |-> m.w,
             res |-> Res("sync_entry", "success", "none", "done", e.key, install_dir, TRUE)]
       ELSE [w |-> SyncExcept(m.w, install_dir, m.err),
             res |-> Res("sync_entry", "error", m.err, "materialise", e.key,
                         install_dir, TRUE)]

\* the body of the for loop for entry e: [w, res]
SyncOne(w, force, e, fault, shape) ==
    LET install_dir == e.path
        r == ResolveAuthor(e)
    IN IF ~NeedsInstall(w, force, install_dir)
       THEN [w |-> w,
             res |-> Res("sync_entry", "skip", "none", "check", e.key, install_dir, FALSE)]
       ELSE IF ~r.ok
       THEN [w |-> w,
             res |-> Res("sync_entry", "error", "NoAuthor", "resolve", e.key,
                         install_dir, FALSE)]
       ELSE SyncReinstall(w, force, e, r.author, r.name, fault, shape)

\* variant of Count: an iteration that failed is not counted
CountForgetsErrors(tally, status) ==
    [success |-> tally.success + (IF status = "success" THEN 1 ELSE 0),
     skip    |-> tally.skip + (IF status = "skip" THEN 1 ELSE 0),
     error   |-> tally.error]

\* the tally after an iteration that ended with the given status
Count(tally, status) ==
    [success |-> tally.success + (IF status = "success" THEN 1 ELSE 0),
     skip    |-> tally.skip + (IF status = "skip" THEN 1 ELSE 0),
     error   |-> tally.error + (IF status = "error" THEN 1 ELSE 0)]

\* variant of SyncAdvance: a failed iteration ends the loop
SyncAdvanceAborts(s, e, res) ==
    IF res.status = "error"
    THEN [s EXCEPT !.idx = Len(s.snap) + 1,
                   !.tally = Count(s.tally, res.status),
                   !.seen = Append(s.seen, e.key),
                   !.counted = Append(s.counted, res.status)]
    ELSE [s EXCEPT !.idx = s.idx + 1,
                   !.tally = Count(s.tally, res.status),
                   !.seen = Append(s.seen, e.key),
                   !.counted = Append(s.counted, res.status)]

\* the loop of sync_skills after the iteration for entry e ended with res:
\* every outcome is caught and counted, and the loop goes on
SyncAdvance(s, e, res) ==
    [s EXCEPT !.idx = s.idx + 1,
              !.tally = Count(s.tally, res.status),
              !.seen = Append(s.seen, e.key),
              !.counted = Append(s.counted, res.status)]

----------------------------------------------------------------------------
(* remove_skill (actions.py) *)

\* variant of MatchedIndex: of the keys that match by name, the last one
MatchedIndexLastNamed(skills, skill_name) ==
    IF KeyIndex(skills, skill_name) # 0 THEN KeyIndex(skills, skill_name)
    ELSE LET named == {i \in 1..Len(skills) :
                          /\ HasSep(skills[i].key)
                          /\ SplitFirst(skills[i].key).name = skill_name}
         IN IF named = {} THEN 0
            ELSE CHOOSE i \in named : \A j \in named : i >= j

\* the entry remove_skill works on: the exact key, else the first key in
\* manifest order whose part after the first "/" is the given name; 0 if none
MatchedIndex(skills, skill_name) ==
    IF KeyIndex(skills, skill_name) # 0 THEN KeyIndex(skills, skill_name)
    ELSE LET named == {i \in 1..Len(skills) :
                          /\ HasSep(skills[i].key)
                          /\ SplitFirst(skills[i].key).name = skill_name}
         IN IF named = {} THEN 0
            ELSE CHOOSE i \in named : \A j \in named : i <= j

\* remove_skill(skill_name, force) with the user's answer to the prompt: [w, res]
actions_remove_skill(w, skill_name, force, answer) ==
    LET installed_skills == get_installed_skills(w)
        i == MatchedIndex(installed_skills, skill_name)
    IN IF load_error(w) # "none"
       THEN [w |-> w, res |-> Res("remove", "error", load_error(w), "load",
                                  skill_name, Root, FALSE)]
       ELSE IF i = 0
       THEN [w |-> w, res |-> Res("remove", "error", "ValueError", "match",
                                  skill_name, Root, FALSE)]
       ELSE
       LET matched_key == installed_skills[i].key
           skill_dir == installed_skills[i].path
       IN IF ~force /\ ~answer
          THEN [w |-> w, res |-> Res("remove", "cancelled", "none", "prompt",
                                     matched_key, skill_dir, FALSE)]
          ELSE IF Exists(w, skill_dir) /\ ~IsDir(w, skill_dir)
          THEN [w |-> w, res |-> Res("remove", "error", "NotADirectoryError", "rmtree",
                                     matched_key, skill_dir, FALSE)]
          ELSE [w |-> remove_skill(IF Exists(w, skill_dir) THEN RmTree(w, skill_dir)
                                   ELSE w,
                                   matched_key).w,
                res |-> Res("remove", "success", "none", "done",
                            matched_key, skill_dir, FALSE)]

----------------------------------------------------------------------------
(* State machine *)

World ==
    [manifest |-> manifest, files |-> files, dirs |-> dirs, calls |-> << >>,
     steps |-> << >>]

Idle == [pc |-> "idle", force |-> FALSE, snap |-> << >>, idx |-> 0,
         tally |-> NoTally, seen |-> << >>, counted |-> << >>]

SetWorld(w) ==
    /\ manifest' = w.manifest
    /\ files' = w.files
    /\ dirs' = w.dirs
    /\ calls' = w.calls

\* skills of the registry and the identifiers given to install
RegistrySkills == {<<"al", Sep, "pdf">>, <<"bo", Sep, "pdf">>}

\* what get_skill_details answers: the versions, the latest first
Registry == [skills |-> RegistrySkills,
             versions |-> [i \in 1..latest |-> latest + 1 - i]]

AbsPath == [given |-> TRUE, absolute |-> TRUE, parts |-> <<"vendor">>]

RelPath == [given |-> TRUE, absolute |-> FALSE, parts |-> <<"vendor">>]

\* path=<root>/skills: the directory the default targets skills/<name> are in
OuterPath == [given |-> TRUE, absolute |-> TRUE, parts |-> <<"skills">>]

\* what can go wrong in one install, and the archive the registry serves;
\* the archive shape is given only where the archive is opened
Scenario(fault, shape, cat) == [fault |-> fault, shape |-> shape, cat |-> cat]

InstallScenarios ==
    {Scenario("none", sh, FALSE) : sh \in Shapes}
    \cup {Scenario(f, "flat", FALSE) :
            f \in {"details_api", "details_empty", "version_api", "download_api",
                   "download_connect", "download_io", "save_io",
                   "pip_pypdf", "pip_all"}}
    \cup {Scenario("none", "flat", TRUE), Scenario("cat_read", "flat", TRUE)}

\* the scenarios tried with every skill and every kind of path
BasicScenarios ==
    {Scenario("none", "flat", FALSE), Scenario("none", "nested", FALSE),
     Scenario("none", "nomarker", FALSE), Scenario("download_api", "flat", FALSE),
     Scenario("save_io", "flat", FALSE)}

\* identifiers with a separator that are not one author and one name: a
\* second separator, no author, no name
OddIdentifiers ==
    {<<"al", Sep, "fmt", Sep, "x">>, <<Sep, "pdf">>, <<"al", Sep>>}

InstallInputs ==
    {[skill_name |-> << >>, path |-> NoPath, overwrite |-> FALSE,
      sc |-> Scenario("none", "flat", FALSE)],
     [skill_name |-> <<"pdf">>, path |-> NoPath, overwrite |-> FALSE,
      sc |-> Scenario("none", "flat", FALSE)]}
    \cup {[skill_name |-> s, path |-> NoPath, overwrite |-> FALSE,
           sc |-> Scenario("none", "flat", FALSE)] : s \in OddIdentifiers}
    \cup {[skill_name |-> <<"al", Sep>>, path |-> NoPath, overwrite |-> TRUE,
           sc |-> Scenario("none", "flat", FALSE)]}
    \cup {[skill_name |-> <<"al", Sep, "pdf">>, path |-> NoPath, overwrite |-> o,
           sc |-> sc] : o \in BOOLEAN, sc \in InstallScenarios}
    \cup {[skill_name |-> <<"al", Sep, "pdf">>, path |-> AbsPath, overwrite |-> o,
           sc |-> sc] : o \in BOOLEAN, sc \in BasicScenarios}
    \cup {[skill_name |-> <<"bo", Sep, "pdf">>, path |-> p, overwrite |-> o,
           sc |-> sc] : p \in {NoPath, AbsPath}, o \in BOOLEAN, sc \in BasicScenarios}
    \cup {[skill_name |-> s, path |-> RelPath, overwrite |-> o,
           sc |-> Scenario("none", "flat", FALSE)] :
            s \in RegistrySkills, o \in BOOLEAN}
    \cup {[skill_name |-> <<"bo", Sep, "pdf">>, path |-> OuterPath, overwrite |-> TRUE,
           sc |-> Scenario("none", "flat", FALSE)]}

SyncScenarios ==
    {Scenario("none", sh, FALSE) : sh \in Shapes}
    \cup {Scenario(f, "flat", FALSE) :
            f \in {"download_api", "download_connect", "download_io",
                   "pip_pypdf", "pip_all"}}

\* entries that an earlier release or another checkout left in skilzy.json:
\* a bare key with a stored author, and a bare key without one
LegacyOcr == Entry(<<"ocr">>, 1, <<"skills", "ocr">>, << >>, <<"al">>)

LegacyFmt == Entry(<<"fmt">>, 1, <<"skills", "fmt">>, << >>, NoAuthor)

\* a key with a second separator, as install records it for "al/fmt/x"
DeepKey == Entry(<<"al", Sep, "fmt", Sep, "x">>, 1, <<"skills", "fmt", "x">>,
                 << >>, <<"al">>)

\* the entries of a project whose two skills were installed with explicit
\* paths, one inside the other: install("al/pdf", path=<root>/vendor/pdf), then
\* install("bo/pdf", path=<root>/vendor, overwrite=True)
VendorPdf == Entry(<<"al", Sep, "pdf">>, 1, <<"vendor", "pdf">>,
                   <<"pypdf", "pillow">>, <<"al">>)

VendorAll == Entry(<<"bo", Sep, "pdf">>, 1, <<"vendor">>, << >>, <<"bo">>)

InitManifests ==
    {Missing}
    \cup {Doc(SchemaVersion, s) :
            s \in {<< >>, <<LegacyOcr, LegacyFmt>>, <<LegacyOcr, DeepKey>>,
                   <<VendorPdf, VendorAll>>}}

\* the names given to remove_skill, and how the call is confirmed
RemoveInputs ==
    {[skill_name |-> n, force |-> c[1], answer |-> c[2]] :
        n \in {<<"al", Sep, "pdf">>, <<"pdf">>, <<"ocr">>, <<"fmt">>},
        c \in {<<TRUE, FALSE>>, <<FALSE, TRUE>>, <<FALSE, FALSE>>}}

InstallDirs == {<<"skills", "pdf">>, <<"skills", "ocr">>, <<"skills", "fmt">>, <<"vendor">>}

NoRes == Res("none", "ok", "none", "none", << >>, Root, FALSE)

\* an operation starts only when no other runs (one process, one thread)
Start ==
    /\ sync.pc = "idle"
    /\ ops < MaxOps
    /\ ops' = ops + 1

Init ==
    /\ manifest \in InitManifests
    /\ files = << >>
    /\ dirs = {}
    /\ latest = 1
    /\ sync = Idle
    /\ calls = << >>
    /\ result = NoRes
    /\ ops = 0

\* actions.init
DoInit ==
    /\ Start
    /\ SetWorld(initialize_tracking_file(World))
    /\ result' = Res("init", IF TrackingFileExists(World) THEN "exists" ELSE "created",
                     "none", "done", << >>, Root, FALSE)
    /\ UNCHANGED <<latest, sync>>

\* actions.install
DoInstall ==
    /\ Start
    /\ \E i \in InstallInputs :
          LET r == install(World, Registry, i.skill_name, i.path, i.overwrite,
                           i.sc.cat, i.sc.fault, i.sc.shape)
          IN /\ SetWorld(r.w)
             /\ result' = r.res
    /\ UNCHANGED <<latest, sync>>

\* an install of a registry skill into skills/<name> that is killed while it
\* downloads or extracts
InstallKilled ==
    /\ Start
    /\ \E overwrite \in BOOLEAN, shape \in {"flat", "nested"}, point \in KillPoints :
          LET skill_name == <<"al", Sep, "pdf">>
              r == installKilled(World, Registry, skill_name, overwrite, shape, point)
          IN /\ overwrite \/ ~Exists(World, r.res.dir)
             /\ SetWorld(r.w)
             /\ result' = r.res
    /\ UNCHANGED <<latest, sync>>

\* actions.remove_skill
DoRemove ==
    /\ Start
    /\ \E i \in RemoveInputs :
          LET r == actions_remove_skill(World, i.skill_name, i.force, i.answer)
          IN /\ SetWorld(r.w)
             /\ result' = r.res
    /\ UNCHANGED <<latest, sync>>

\* sync_skills up to the loop
SyncBegin ==
    /\ Start
    /\ \E force \in BOOLEAN :
          IF ~TrackingFileExists(World)
          THEN /\ result' = Res("sync", "error", "FileNotFoundError", "exists",
                                << >>, Root, FALSE)
               /\ sync' = Idle
          ELSE IF load_error(World) # "none"
          THEN /\ result' = Res("sync", "error", load_error(World), "load",
                                << >>, Root, FALSE)
               /\ sync' = Idle
          ELSE IF load_skills(World) = << >>
          THEN /\ result' = [Res("sync", "ok", "none", "empty", << >>, Root, FALSE)
                                 EXCEPT !.tally = EmptyTally]
               /\ sync' = Idle
          ELSE /\ result' = Res("sync_begin", "ok", "none", "loop", << >>, Root, FALSE)
               /\ sync' = [pc |-> "loop", force |-> force, snap |-> load_skills(World),
                           idx |-> 1, tally |-> NoTally, seen |-> << >>,
                           counted |-> << >>]
    /\ calls' = << >>
    /\ UNCHANGED <<manifest, files, dirs, latest>>

\* one iteration of the loop of sync_skills
SyncEntry ==
    /\ sync.pc = "loop"
    /\ sync.idx <= Len(sync.snap)
    /\ \E sc \in SyncScenarios :
          LET e == sync.snap[sync.idx]
              r == SyncOne([World EXCEPT !.calls = << >>], sync.force, e,
                           sc.fault, sc.shape)
          IN /\ SetWorld(r.w)
             /\ sync' = SyncAdvance(sync, e, r.res)
             /\ result' = [r.res EXCEPT !.tally = SyncAdvance(sync, e, r.res).tally]
    /\ UNCHANGED <<latest, ops>>

\* sync_skills after the loop: the summary and the returned tally
SyncEnd ==
    /\ sync.pc = "loop"
    /\ sync.idx > Len(sync.snap)
    /\ result' = [Res("sync", "ok", "none", "done", << >>, Root, FALSE)
                     EXCEPT !.tally = sync.tally, !.seen = sync.seen]
    /\ sync' = Idle
    /\ calls' = << >>
    /\ UNCHANGED <<manifest, files, dirs, latest, ops>>

\* the registry lists a newer version of a skill first
Publish ==
    /\ Start
    /\ latest < MaxVersion
    /\ latest' = latest + 1
    /\ result' = NoRes
    /\ calls' = << >>
    /\ UNCHANGED <<manifest, files, dirs, sync>>

\* the user removes an installation directory by hand
UserRemoveDir ==
    /\ Start
    /\ \E d \in InstallDirs :
          /\ d \in dirs
          /\ SetWorld(RmTree(World, d))
    /\ result' = NoRes
    /\ UNCHANGED <<latest, sync>>

\* a directory with a file of the user's is in the way of an installation
UserCreateDir ==
    /\ Start
    /\ \E d \in InstallDirs :
          /\ ~Exists(World, d)
          /\ SetWorld(WriteFile(MkDirs(World, d), d \o <<UserFile>>, UserContent))
    /\ result' = NoRes
    /\ UNCHANGED <<latest, sync>>

Next ==
    \/ DoInit
    \/ DoInstall
    \/ InstallKilled
    \/ DoRemove
    \/ SyncBegin
    \/ SyncEntry
    \/ SyncEnd
    \/ Publish
    \/ UserRemoveDir
    \/ UserCreateDir

Spec == Init /\ [][Next]_vars

\* sync_skills runs to its end once started: each call it makes returns or
\* times out, so an enabled loop step is eventually taken.  The first
\* condition is WF_vars(SyncEntry) with ENABLED <<SyncEntry>>_vars written
\* out: an iteration can run exactly when the loop has an entry left.
FairSpec ==
    /\ Spec
    /\ ([]<>~(sync.pc = "loop" /\ sync.idx <= Len(sync.snap)) \/ []<><<SyncEntry>>_vars)
    /\ WF_vars(SyncEnd)

----------------------------------------------------------------------------
(* remove_skill and sync_skills on a tracking file that was edited by hand  *)
(* or written by another tool: load_skills returns it, but the path field   *)
(* of an entry is missing or empty.  skill_info.get("path", "") is then "", *)
(* and root / "" is the project root.  A project root that was deleted and  *)
(* one that is empty look the same to both operations (no tracking file,    *)
(* and mkdir(parents=True) creates it again), so the root is not a          *)
(* member of dirs here either.                                              *)

\* an entry without a path
NoPathPdf == Entry(<<"al", Sep, "pdf">>, 1, Root, << >>, <<"al">>)

EditedManifests ==
    {Doc(SchemaVersion, s) :
        s \in {<<NoPathPdf>>, <<LegacyOcr, NoPathPdf>>, <<NoPathPdf, LegacyOcr>>}}

\* a file of the project, next to skilzy.json
ProjectFile == <<"main.py">>

EditedInit ==
    /\ manifest \in EditedManifests
    /\ files = [p \in {ProjectFile} |-> UserContent]
    /\ dirs = {}
    /\ latest = 1
    /\ sync = Idle
    /\ calls = << >>
    /\ result = NoRes
    /\ ops = 0

EditedNext ==
    \/ DoRemove
    \/ SyncBegin
    \/ SyncEntry
    \/ SyncEnd

EditedSpec == EditedInit /\ [][EditedNext]_vars

----------------------------------------------------------------------------
(* The tracking store on its own: SkillTracker's methods called in any      *)
(* order on a tracking file with any content                                *)

\* an entry written by another release of the tool, in a document whose
\* version field is not the one this release writes
OtherSchema == "0.9"

TrackerManifests ==
    {Missing, Corrupt, Undecodable, NotObject, Doc(SchemaVersion, << >>),
     Doc(SchemaVersion, <<LegacyOcr, LegacyFmt>>), Doc(OtherSchema, <<LegacyOcr>>)}

TrackerKeys == {<<"al", Sep, "pdf">>, <<"ocr">>, <<"fmt">>}

AddInputs ==
    {[key |-> k, version |-> v, path |-> p, dependencies |-> d, author |-> a] :
        k \in {<<"al", Sep, "pdf">>, <<"ocr">>}, v \in 1..MaxVersion,
        p \in {<<"skills", "pdf">>, <<"vendor">>},
        d \in {None, << >>, <<"pypdf">>}, a \in {None, << >>, <<"al">>}}

TrackerStart ==
    /\ ops < MaxTrackerOps
    /\ ops' = ops + 1

TrackerInit ==
    /\ manifest \in TrackerManifests
    /\ files = << >>
    /\ dirs = {}
    /\ latest = 1
    /\ sync = Idle
    /\ calls = << >>
    /\ result = NoRes
    /\ ops = 0

\* SkillTracker.initialize_tracking_file, with the boolean it returns
TrackInitialize ==
    /\ TrackerStart
    /\ SetWorld(initialize_tracking_file(World))
    /\ result' = Res("initialize", IF TrackingFileExists(World) THEN "false" ELSE "true",
                     "none", "done", << >>, Root, FALSE)
    /\ UNCHANGED <<latest, sync>>

\* SkillTracker.add_skill
TrackAdd ==
    /\ TrackerStart
    /\ \E i \in AddInputs :
          /\ SetWorld(add_skill(World, i.key, i.version, i.path, i.dependencies,
                                i.author))
          /\ result' = IF load_error(World) # "none"
                        THEN Res("add_skill", "error", load_error(World), "load",
                                 i.key, i.path, FALSE)
                        ELSE Res("add_skill", "ok", "none", "done", i.key, i.path, FALSE)
    /\ UNCHANGED <<latest, sync>>

\* a mutation (add_skill, or remove_skill of a present key) whose process is
\* killed inside save_skills, after write_text opened the file
TrackSaveKilled ==
    /\ TrackerStart
    /\ load_error(World) = "none"
    /\ SetWorld(save_skillsKilled(World))
    /\ result' = Res("save_skills", "killed", "none", "write_text", << >>, Root, FALSE)
    /\ UNCHANGED <<latest, sync>>

\* SkillTracker.remove_skill, with the boolean it returns
TrackRemove ==
    /\ TrackerStart
    /\ \E k \in TrackerKeys :
          /\ SetWorld(remove_skill(World, k).w)
          /\ result' = IF remove_skill(World, k).err # "none"
                        THEN Res("remove_skill", "error", remove_skill(World, k).err,
                                 "load", k, Root, FALSE)
                        ELSE Res("remove_skill",
                                 IF remove_skill(World, k).found THEN "true" ELSE "false",
                                 "none", "done", k, Root, FALSE)
    /\ UNCHANGED <<latest, sync>>

\* SkillTracker.get_installed_skills, with the mapping it returns
TrackLoad ==
    /\ TrackerStart
    /\ result' = IF load_error(World) # "none"
                  THEN Res("load_skills", "error", load_error(World), "load",
                           << >>, Root, FALSE)
                  ELSE [Res("load_skills", "ok", "none", "done", << >>, Root, FALSE)
                           EXCEPT !.seen = get_installed_skills(World)]
    /\ calls' = << >>
    /\ UNCHANGED <<manifest, files, dirs, latest, sync>>

TrackerNext ==
    \/ TrackInitialize
    \/ TrackAdd
    \/ TrackRemove
    \/ TrackLoad
    \/ TrackSaveKilled

TrackerSpec == TrackerInit /\ [][TrackerNext]_vars

----------------------------------------------------------------------------
(* The registry client as such (client.py) and the two actions that need a *)
(* credential (actions.py), under a specification of their own.  A request *)
(* that is sent is logged in calls with its Authorization header.          *)

\* the three credential sources of a call (the api_key argument, the
\* environment variable, the config file), each holding nothing (None, unset,
\* no file), the empty string or a key
Sources(api_key, env, stored) == [api_key |-> api_key, env |-> env, stored |-> stored]

CredentialCases ==
    {Sources(None, None, None), Sources(<< >>, None, None),
     Sources(None, << >>, None), Sources(None, None, << >>),
     Sources(<<"key">>, None, None), Sources(None, <<"key">>, None),
     Sources(None, None, <<"key">>), Sources(<< >>, <<"key">>, None),
     Sources(None, << >>, <<"key">>)}

\* truthiness of an optional string
Truthy(c) == c # None /\ c # << >>

\* api_key or os.environ.get("SKILZY_API_KEY") or config.load_api_key()
FinalKey(api_key, env, stored) ==
    IF Truthy(api_key) THEN api_key ELSE IF Truthy(env) THEN env ELSE stored

NoHeader == <<"none">>

\* headers["Authorization"], set only for a key that is truthy
AuthHeader(key) == IF Truthy(key) THEN <<"Bearer">> \o key ELSE NoHeader

\* what comes back for a request: an HTTP response, or no connection, or a
\* connection that breaks while the answer is read
Http(status) == [kind |-> "http", status |-> status]

Statuses == {200, 401, 403, 404, 409, 500, 503}

Answers ==
    {Http(n) : n \in Statuses}
    \cup {[kind |-> "connect", status |-> 0], [kind |-> "timeout", status |-> 0]}

Req(kind, key) == [call |-> kind, auth |-> AuthHeader(key)]

\* an outcome of a client call: the exception class, its status_code
\* attribute (0 when the class has none) and the message
Raised(error, code, msg) == [error |-> error, code |-> code, msg |-> msg]

Returned == Raised("none", 0, "none")

\* SkilzyClient._handle_response
handle_response(status) ==
    IF 200 <= status /\ status < 300 THEN Returned
    ELSE CASE status = 401 -> Raised("SkilzyAuthenticationError", status, "api")
           [] status = 403 -> Raised("SkilzyPermissionError", status, "api")
           [] status = 404 -> Raised("SkilzyNotFound", status, "api")
           [] status = 409 -> Raised("SkilzyConflictError", status, "api")
           [] OTHER -> Raised("SkilzyAPIError", status, "api")

\* self._client.get / post followed by _handle_response: an httpx exception
\* is not caught; [out, w]
Send(w, kind, key, answer) ==
    [out |-> CASE answer.kind = "http" -> handle_response(answer.status)
               [] answer.kind = "connect" -> Raised("ConnectError", 0, "httpx")
               [] OTHER -> Raised("ReadTimeout", 0, "httpx"),
     w   |-> Log(w, Req(kind, key))]

\* SkilzyClient.search_skills, get_skill_details and get_skill_version
client_get(w, kind, key, answer) == Send(w, kind, key, answer)

\* SkilzyClient.download_skill: its own status check and its except clause
client_download(w, key, answer) ==
    [out |-> CASE answer.kind = "http" ->
                     IF answer.status # 200
                     THEN Raised("SkilzyAPIError", answer.status, "download")
                     ELSE Returned
               [] answer.kind = "connect" -> Raised("SkilzyAPIError", 503, "connection")
               [] OTHER -> Raised("ReadTimeout", 0, "httpx"),
     w   |-> Log(w, Req("download", key))]

\* variant of client_get_my_skills: the request is sent without the key check
client_get_my_skillsUnchecked(w, key, answer) == Send(w, "my_skills", key, answer)

\* SkilzyClient.get_my_skills
client_get_my_skills(w, key, answer) ==
    IF ~Truthy(key)
    THEN [out |-> Raised("SkilzyError", 0, "authentication required"), w |-> w]
    ELSE Send(w, "my_skills", key, answer)

\* what the path given to publish leads to
Packages == {"missing", "badzip", "nomarker", "valid"}

\* SkilzyClient.publish_skill
client_publish_skill(w, key, package, answer) ==
    IF ~Truthy(key)
    THEN [out |-> Raised("SkilzyError", 0, "authentication required"), w |-> w]
    ELSE IF package \in {"missing", "badzip"}
    THEN [out |-> Raised("SkilzyError", 0, "could not open"), w |-> w]
    ELSE IF package = "nomarker"
    THEN [out |-> Raised("SkilzyError", 0, "invalid package"), w |-> w]
    ELSE Send(w, "publish", key, answer)

\* publish(package_path, api_key) of actions.py
publish(w, api_key, env, stored, package, answer) ==
    IF package = "missing"
    THEN [out |-> Raised("FileNotFoundError", 0, "package not found"), w |-> w]
    ELSE IF ~Truthy(FinalKey(api_key, env, stored))
    THEN [out |-> Raised("SkilzyAuthenticationError", 401, "must be logged in"),
          w |-> w]
    ELSE client_publish_skill(w, FinalKey(api_key, env, stored), package, answer)

\* me_skills(api_key) of actions.py
me_skills(w, api_key, env, stored, answer) ==
    IF ~Truthy(FinalKey(api_key, env, stored))
    THEN [out |-> Raised("SkilzyAuthenticationError", 401, "must be logged in"),
          w |-> w]
    ELSE client_get_my_skills(w, FinalKey(api_key, env, stored), answer)

\* how a call of the client or of one of the two actions ended, with what it
\* was given
ClientRes(op, api_key, env, stored, package, answer, out) ==
    [op |-> op, api_key |-> api_key, env |-> env, stored |-> stored,
     package |-> package, answer |-> answer, error |-> out.error,
     code |-> out.code, msg |-> out.msg]

NoClientRes ==
    ClientRes("none", None, None, None, "valid", Http(200), Returned)

ClientInit ==
    /\ manifest = Missing
    /\ files = << >>
    /\ dirs = {}
    /\ latest = 1
    /\ sync = Idle
    /\ calls = << >>
    /\ result = NoClientRes
    /\ ops = 0

\* one call on a client built from the three credential sources
ClientCall(op, api_key, env, stored, package, answer, r) ==
    /\ Start
    /\ calls' = r.w.calls
    /\ result' = ClientRes(op, api_key, env, stored, package, answer, r.out)
    /\ UNCHANGED <<manifest, files, dirs, latest, sync>>

CallGet ==
    \E c \in CredentialCases, a \in Answers, op \in {"search", "details", "version"} :
        ClientCall(op, c.api_key, c.env, c.stored, "valid", a,
                   client_get(World, op, FinalKey(c.api_key, c.env, c.stored), a))

CallDownload ==
    \E c \in CredentialCases, a \in Answers :
        ClientCall("download", c.api_key, c.env, c.stored, "valid", a,
                   client_download(World, FinalKey(c.api_key, c.env, c.stored), a))

CallMySkills ==
    \E c \in CredentialCases, a \in Answers :
        ClientCall("get_my_skills", c.api_key, c.env, c.stored, "valid", a,
                   client_get_my_skills(World, FinalKey(c.api_key, c.env, c.stored), a))

CallPublish ==
    \E c \in CredentialCases, a \in Answers, p \in Packages :
        ClientCall("publish_skill", c.api_key, c.env, c.stored, p, a,
                   client_publish_skill(World, FinalKey(c.api_key, c.env, c.stored),
                                        p, a))

DoPublish ==
    \E c \in CredentialCases, a \in Answers, p \in Packages :
        ClientCall("publish", c.api_key, c.env, c.stored, p, a,
                   publish(World, c.api_key, c.env, c.stored, p, a))

DoMeSkills ==
    \E c \in CredentialCases, a \in Answers :
        ClientCall("me_skills", c.api_key, c.env, c.stored, "valid", a,
                   me_skills(World, c.api_key, c.env, c.stored, a))

ClientNext ==
    \/ CallGet
    \/ CallDownload
    \/ CallMySkills
    \/ CallPublish
    \/ DoPublish
    \/ DoMeSkills

ClientSpec == ClientInit /\ [][ClientNext]_vars

----------------------------------------------------------------------------
(* Properties *)

LoadedSkills == load_skills(World)

InstallFailed == result.op = "install" /\ result.status = "error"

\* C1: when install raises after it has created the target directory, the
\* target directory does not exist when the exception reaches the caller.
C1_FailedInstallLeavesNoDir ==
    (InstallFailed /\ result.created) => ~Exists(World, result.dir)

\* C1 happens: the tracking-file write failed after the directory was populated
C1_Witness ==
    InstallFailed /\ result.created /\ result.error = "IOError"

\* C2: an install call that ends with an error leaves the skills mapping of
\* the tracking manifest as it was before the call.
C2_FailedInstallKeepsSkills ==
    [][(result'.op = "install" /\ result'.status = "error")
          => LoadedSkills' = LoadedSkills]_vars

\* C3: an entry on which sync fails after creating the entry's directory is
\* counted as an error and its directory is gone when sync moves on.
C3_FailedEntryLeavesNoDir ==
    (result.op = "sync_entry" /\ result.status = "error" /\ result.created)
        => (result.tally.error >= 1 /\ ~Exists(World, result.dir))

\* the state is inside the loop of sync_skills with an entry left to process,
\* so the next step is the iteration for ThisEntry
AtEntry == sync.pc = "loop" /\ sync.idx <= Len(sync.snap)

ThisEntry == sync.snap[sync.idx]

AfterLoop == sync.pc = "loop" /\ sync.idx > Len(sync.snap)

SyncReturned == result.op = "sync" /\ result.at = "done"

KeysOf(skills) == [i \in 1..Len(skills) |-> skills[i].key]

Total(tally) == tally.success + tally.skip + tally.error

Downloads(log) == {i \in DOMAIN log : log[i].call = "download"}

\* the reinstall condition, read off the disk
ReinstallNeeded ==
    \/ sync.force
    \/ ~(ThisEntry.path \in dirs \/ ThisEntry.path \in DOMAIN files)
    \/ ~((ThisEntry.path \o <<MarkerFile>>) \in DOMAIN files)

\* C4: whatever happens to one entry, sync goes on with the next one, each
\* tracked entry is processed exactly once and in the stored order, and sync
\* ends by returning its tally.
C4_SyncNeverAborts ==
    /\ [][AtEntry => /\ sync'.pc = "loop"
                     /\ sync'.snap = sync.snap
                     /\ sync'.idx = sync.idx + 1
                     /\ sync'.seen = Append(sync.seen, ThisEntry.key)
                     /\ result'.key = ThisEntry.key]_vars
    /\ [][AfterLoop => /\ result'.op = "sync"
                       /\ result'.at = "done"
                       /\ result'.seen = KeysOf(sync.snap)
                       /\ result'.tally = sync.tally]_vars
    /\ (sync.pc = "loop") ~> SyncReturned

\* C4 happens: sync returned after entries failed and a later entry was reached
C4_Witness ==
    /\ SyncReturned
    /\ Len(result.seen) = 3
    /\ result.tally.error >= 1
    /\ result.tally.skip >= 1

\* C5: no step of sync changes the tracking file.
C5_SyncKeepsManifest ==
    [][(sync.pc = "loop" \/ sync'.pc = "loop" \/ result'.op = "sync")
          => manifest' = manifest]_vars

\* C5 happens: a sync with a succeeded, a skipped and a failed entry returned
C5_Witness ==
    /\ SyncReturned
    /\ result.tally.success >= 1
    /\ result.tally.skip >= 1
    /\ result.tally.error >= 1

\* C6: every entry adds one to exactly one of success, skip and error (skip
\* when no reinstall is needed, success when it is materialised, error
\* otherwise), so the returned counts add up to the number of tracked entries.
C6_TallyPartitions ==
    /\ [][AtEntry =>
            /\ result'.status \in {"success", "skip", "error"}
            /\ sync'.tally.success =
                  sync.tally.success + (IF result'.status = "success" THEN 1 ELSE 0)
            /\ sync'.tally.skip =
                  sync.tally.skip + (IF result'.status = "skip" THEN 1 ELSE 0)
            /\ sync'.tally.error =
                  sync.tally.error + (IF result'.status = "error" THEN 1 ELSE 0)
            /\ (result'.status = "skip") <=> ~ReinstallNeeded
            /\ (result'.status = "success")
                  => (ThisEntry.path \o <<MarkerFile>>) \in DOMAIN files'
            /\ (result'.status = "error") => result'.error # "none"]_vars
    /\ [][AfterLoop => Total(result'.tally) = Len(LoadedSkills)]_vars

\* C6 happens: three entries that need install and can be resolved, one of
\* which failed: success 2, skip 0, error 1
C6_Witness ==
    /\ SyncReturned
    /\ result.tally = [success |-> 2, skip |-> 0, error |-> 1]
    /\ \A i \in 1..Len(LoadedSkills) :
          HasSep(LoadedSkills[i].key) \/ LoadedSkills[i].author # << >>

\* C7: an entry is reinstalled only if force is set, its directory is missing
\* or skill.json is missing directly inside it, and every such entry whose
\* author is known is; any other entry is counted as skipped, with no
\* registry call and its directory untouched.
C7_ReinstallIffNeeded ==
    [][AtEntry =>
         /\ (result'.status = "skip") <=> ~ReinstallNeeded
         /\ ~ReinstallNeeded => (calls' = << >> /\ files' = files /\ dirs' = dirs)
         /\ Downloads(calls') # {} => ReinstallNeeded
         /\ (ReinstallNeeded /\ (HasSep(ThisEntry.key) \/ ThisEntry.author # << >>))
               => Downloads(calls') # {}]_vars

\* C7 happens: an entry whose directory holds skill.json was skipped
C7_Witness ==
    /\ result.op = "sync_entry"
    /\ result.status = "skip"
    /\ (result.dir \o <<MarkerFile>>) \in DOMAIN files

\* C8: the archive sync downloads for an entry is the entry's recorded
\* version, what it writes is written below <root>/<entry.path>, and it never
\* asks the registry for skill details or for a version's details.
C8_SyncInstallsRecordedVersion ==
    [][AtEntry =>
         /\ \A i \in DOMAIN calls' : calls'[i].call \in {"pip", "download"}
         /\ \A i \in Downloads(calls') : calls'[i].version = ThisEntry.version
         /\ \A p \in DOMAIN files' :
               (p \notin DOMAIN files \/ files'[p] # files[p])
                  => (IsPrefix(ThisEntry.path, p)
                      /\ files'[p].version = ThisEntry.version)
         /\ (result'.status = "success")
               => /\ (ThisEntry.path \o <<MarkerFile>>) \in DOMAIN files'
                  /\ files'[ThisEntry.path \o <<MarkerFile>>].kind = "pkg"
                  /\ files'[ThisEntry.path \o <<MarkerFile>>].version
                        = ThisEntry.version]_vars

\* C8 happens: an entry was reinstalled while the registry lists a newer version
C8_Witness ==
    /\ result.op = "sync_entry"
    /\ result.status = "success"
    /\ sync.snap[sync.idx - 1].version < latest

\* C9: for an entry to reinstall, (author, name) is the key split at its
\* first "/" if it has one, else the stored author with the key as name; with
\* neither, the entry is an error, nothing is downloaded, its directory stays
\* even under force, and sync goes on.
C9_AuthorResolution ==
    [][(AtEntry /\ ReinstallNeeded) =>
         LET key == ThisEntry.key
             log == calls'
         IN /\ (\E i \in 1..Len(key) : key[i] = Sep)
                  => \E i \in 1..Len(key) :
                        /\ key[i] = Sep
                        /\ \A j \in 1..(i - 1) : key[j] # Sep
                        /\ Downloads(log) # {}
                        /\ \A c \in Downloads(log) :
                              /\ log[c].author = SubSeq(key, 1, i - 1)
                              /\ log[c].name = SubSeq(key, i + 1, Len(key))
            /\ ((\A i \in 1..Len(key) : key[i] # Sep) /\ ThisEntry.author # << >>)
                  => /\ Downloads(log) # {}
                     /\ \A c \in Downloads(log) :
                           log[c].author = ThisEntry.author /\ log[c].name = key
            /\ ((\A i \in 1..Len(key) : key[i] # Sep) /\ ThisEntry.author = << >>)
                  => /\ result'.status = "error"
                     /\ sync'.tally.error = sync.tally.error + 1
                     /\ log = << >>
                     /\ files' = files
                     /\ dirs' = dirs
                     /\ sync'.pc = "loop"
                     /\ sync'.idx = sync.idx + 1]_vars

\* C9 happens: under force, an entry without author was refused while its
\* directory exists
C9_Witness ==
    /\ result.op = "sync_entry"
    /\ result.error = "NoAuthor"
    /\ sync.force
    /\ result.dir \in dirs

\* C10: sync without a tracking file fails with FileNotFoundError, creates no
\* tracking file, creates or deletes no directory and calls no registry.
C10_SyncNeedsTrackingFile ==
    [][(sync.pc = "idle" /\ manifest = Missing
          /\ result'.op \in {"sync", "sync_begin"})
         => /\ result'.status = "error"
            /\ result'.error = "FileNotFoundError"
            /\ manifest' = Missing
            /\ files' = files
            /\ dirs' = dirs
            /\ calls' = << >>
            /\ sync'.pc = "idle"]_vars

\* C10 happens: sync was called without a tracking file
C10_Witness ==
    /\ result.op = "sync"
    /\ result.error = "FileNotFoundError"
    /\ manifest = Missing

\* C11: sync on a tracking file that tracks nothing returns success 0, skip 0,
\* error 0, calls no registry and changes no file and no directory.
C11_EmptySyncDoesNothing ==
    [][(sync.pc = "idle" /\ manifest # Missing /\ LoadedSkills = << >>
          /\ result'.op \in {"sync", "sync_begin"})
         => /\ result'.op = "sync"
            /\ result'.status = "ok"
            /\ result'.tally.success = 0
            /\ result'.tally.skip = 0
            /\ result'.tally.error = 0
            /\ calls' = << >>
            /\ manifest' = manifest
            /\ files' = files
            /\ dirs' = dirs
            /\ sync'.pc = "idle"]_vars

\* C11 happens: sync returned on an empty manifest next to an existing directory
C11_Witness ==
    /\ result.op = "sync"
    /\ result.at = "empty"
    /\ manifest = Doc(SchemaVersion, << >>)
    /\ dirs # {}

\* an operation can start in this state
CanStart == sync.pc = "idle" /\ ops < MaxOps

\* install applied to the current state with input i, as DoInstall applies it
InstallOf(i) ==
    install(World, Registry, i.skill_name, i.path, i.overwrite,
            i.sc.cat, i.sc.fault, i.sc.shape)

\* the target directory of input i: the explicit path, else skills/<name>,
\* name being what follows the first "/" of the identifier
TargetDir(i) ==
    IF i.path.given THEN i.path.parts
    ELSE <<"skills">> \o PathParts(SubSeq(i.skill_name, FirstSep(i.skill_name) + 1,
                                          Len(i.skill_name)))

\* C12: install whose target directory exists, without overwrite, fails with
\* FileExistsError, calls no registry, and leaves every file, every directory
\* and every manifest entry as it was.
C12_ExistingDirRefused ==
    CanStart =>
        \A i \in InstallInputs :
            (HasSep(i.skill_name) /\ ~i.overwrite /\ Exists(World, TargetDir(i)))
                => LET r == InstallOf(i) IN
                   /\ r.res.status = "error"
                   /\ r.res.error = "FileExistsError"
                   /\ r.w.calls = << >>
                   /\ r.w.files = files
                   /\ r.w.dirs = dirs
                   /\ load_skills(r.w) = LoadedSkills

\* C12 happens: install was refused and the user's file is still in the target
C12_Witness ==
    /\ result.op = "install"
    /\ result.error = "FileExistsError"
    /\ (result.dir \o <<UserFile>>) \in DOMAIN files

\* C13: after a successful install with overwrite into a directory that
\* existed, every file below the target came out of the new archive, and every
\* directory below it leads to such a file.
C13_OverwriteReplacesTree ==
    CanStart =>
        \A i \in InstallInputs :
            (HasSep(i.skill_name) /\ i.overwrite /\ Exists(World, TargetDir(i)))
                => LET r == InstallOf(i)
                       after == r.w
                       d == TargetDir(i)
                       new == Pkg(SplitFirst(i.skill_name).author,
                                  SplitFirst(i.skill_name).name, Registry.versions[1])
                   IN r.res.status = "ok" =>
                        /\ \A p \in DOMAIN after.files :
                              IsPrefix(d, p) => after.files[p] = new
                        /\ \A q \in after.dirs :
                              (IsPrefix(d, q) /\ q # d)
                                 => \E p \in DOMAIN after.files : IsPrefix(q, p)
                        /\ (d \o <<MarkerFile>>) \in DOMAIN after.files

\* C13 happens: an install succeeded into the directory that another tracked
\* skill was installed in, and only the new skill's files are there
C13_Witness ==
    /\ result.op = "install"
    /\ result.status = "ok"
    /\ \E i \in 1..Len(LoadedSkills) :
          /\ LoadedSkills[i].key # result.key
          /\ LoadedSkills[i].path = result.dir
    /\ \A p \in DOMAIN files :
          IsPrefix(result.dir, p) => files[p].author = SplitFirst(result.key).author

\* an identifier that is exactly one author and one name around one "/"
WellFormed(s) ==
    /\ Cardinality({k \in 1..Len(s) : s[k] = Sep}) = 1
    /\ s[1] # Sep
    /\ s[Len(s)] # Sep

\* C14: install with an identifier that is not exactly one author and one name
\* fails with ValueError before any I/O: no tracking file, no directory, no
\* file and no registry call is made or removed.
C14_BadIdentifierRefused ==
    CanStart =>
        \A i \in InstallInputs :
            ~WellFormed(i.skill_name)
                => LET r == InstallOf(i) IN
                   /\ r.res.status = "error"
                   /\ r.res.error = "ValueError"
                   /\ r.w.manifest = manifest
                   /\ r.w.files = files
                   /\ r.w.dirs = dirs
                   /\ r.w.calls = << >>

\* C15: after a successful install of "author/name" the tracking store holds,
\* under that key and once, the first version the registry lists, the target
\* directory relative to the root, the declared dependencies and the author
\* (the text before the first "/"); install returns the identifier, that
\* version and the install directory.
C15_InstallRecordsEntry ==
    [][(result'.op = "install" /\ result'.status = "ok")
         => LET key == result'.key
                skills == LoadedSkills'
                at == {k \in 1..Len(skills) : skills[k].key = key}
            IN /\ \E n \in 1..Len(key) :
                     /\ key[n] = Sep
                     /\ \A j \in 1..(n - 1) : key[j] # Sep
                     /\ \A k \in at :
                           /\ skills[k].author = SubSeq(key, 1, n - 1)
                           /\ skills[k].dependencies
                                 = RuntimeDeps(SubSeq(key, 1, n - 1),
                                               SubSeq(key, n + 1, Len(key)))
               /\ Cardinality(at) = 1
               /\ \A k \in at :
                     /\ skills[k].version = Registry.versions[1]
                     /\ skills[k].path = result'.dir
               /\ result'.version = Registry.versions[1]
               /\ result'.dir \in dirs'
               /\ manifest'.state = "ok"]_vars

\* C15 happens: an install recorded the newer of two versions with its
\* declared dependency
C15_Witness ==
    /\ result.op = "install"
    /\ result.status = "ok"
    /\ result.version = MaxVersion
    /\ \E k \in 1..Len(LoadedSkills) :
          /\ LoadedSkills[k].key = result.key
          /\ LoadedSkills[k].version = MaxVersion
          /\ LoadedSkills[k].dependencies # << >>

\* input i fails for no reason other than, possibly, its explicit path
OtherwiseFine(i) ==
    /\ i.skill_name \in RegistrySkills
    /\ i.sc.fault = "none"
    /\ i.sc.shape \in {"flat", "nested"}
    /\ (i.overwrite \/ ~Exists(World, TargetDir(i)))

\* C16: the target directory is the explicit path when one is given, else
\* skills/<name>; with any explicit path an otherwise successful install
\* succeeds, populates that directory and records it relative to the root.
C16_ExplicitPathInstalls ==
    CanStart =>
        \A i \in InstallInputs :
            OtherwiseFine(i)
                => LET r == InstallOf(i)
                       skills == load_skills(r.w)
                   IN
                   /\ r.res.status = "ok"
                   /\ r.res.dir = TargetDir(i)
                   /\ (TargetDir(i) \o <<MarkerFile>>) \in DOMAIN r.w.files
                   /\ \E k \in 1..Len(skills) :
                         skills[k].key = i.skill_name /\ skills[k].path = TargetDir(i)

\* C17: no two entries of the tracking manifest have the same path.
C17_PathsUnique ==
    \A j, k \in 1..Len(LoadedSkills) :
        LoadedSkills[j].path = LoadedSkills[k].path => j = k

\* C18: initialize creates the manifest {version "1.0", no skills} and returns
\* true only when the file is absent; when the file exists, whatever it
\* holds, it returns false and leaves the file as it is.
C18_InitializeIdempotent ==
    [][result'.op = "initialize"
         => IF manifest = Missing
            THEN /\ manifest' = [state |-> "ok", version |-> "1.0", skills |-> << >>]
                 /\ result'.status = "true"
            ELSE /\ manifest' = manifest
                 /\ result'.status = "false"]_vars

\* C18 happens: initialize returned false on a file that tracks a skill
C18_Witness ==
    /\ result.op = "initialize"
    /\ result.status = "false"
    /\ manifest.state = "ok"
    /\ manifest.skills # << >>
    /\ ops = MaxTrackerOps

\* the entries of a mapping other than the one under key, in stored order
Others(skills, key) == SelectSeq(skills, LAMBDA e : e.key # key)

\* C19: add_skill followed by load returns under the key, once, the entry that
\* was written (dependencies empty when none were given, author absent when
\* none was given), whatever was stored under the key before; the entries of
\* all other keys are the ones load returned before.  The tracking file is
\* one load_skills returns from; the files it raises on are the matter of C21.
C19_AddThenLoad ==
    \A i \in AddInputs :
        load_error(World) = "none" =>
        LET after == load_skills(add_skill(World, i.key, i.version, i.path,
                                           i.dependencies, i.author))
            at == {k \in 1..Len(after) : after[k].key = i.key}
        IN /\ Cardinality(at) = 1
           /\ \A k \in at :
                 /\ after[k].version = i.version
                 /\ after[k].path = i.path
                 /\ after[k].dependencies
                       = (IF i.dependencies = None THEN << >> ELSE i.dependencies)
                 /\ after[k].author
                       = (IF i.author = None THEN << >> ELSE i.author)
           /\ Others(after, i.key) = Others(LoadedSkills, i.key)

\* C19 happens: add_skill replaced the entry of a key next to another entry
C19_Witness ==
    /\ result.op = "add_skill"
    /\ result.key = <<"ocr">>
    /\ Len(LoadedSkills) = 2
    /\ LoadedSkills[1].key = <<"ocr">>
    /\ LoadedSkills[1] # LegacyOcr
    /\ LoadedSkills[2] = LegacyFmt

\* C20: remove_skill returns true exactly when the key was present; then the
\* key is absent afterwards and every other entry is unchanged; when the key
\* is absent it returns false and the tracking file is left as it is.  The
\* tracking file is one load_skills returns from; the others are the matter of C21.
C20_RemoveFrame ==
    \A key \in TrackerKeys :
        load_error(World) = "none" =>
        LET r == remove_skill(World, key)
            present == \E k \in 1..Len(LoadedSkills) : LoadedSkills[k].key = key
        IN /\ r.found <=> present
           /\ present => /\ \A k \in 1..Len(load_skills(r.w)) :
                                load_skills(r.w)[k].key # key
                          /\ load_skills(r.w) = Others(LoadedSkills, key)
           /\ ~present => r.w.manifest = manifest

\* C20 happens: remove_skill returned false for a key the file does not hold,
\* and the file still holds its entry under the other schema version
C20_Witness ==
    /\ result.op = "remove_skill"
    /\ result.status = "false"
    /\ manifest = Doc(OtherSchema, <<LegacyOcr>>)

\* C21: load_skills never fails: it returns the empty mapping when the tracking
\* file is missing and when its content is malformed, and the stored mapping
\* otherwise; add_skill on a malformed file leaves a valid manifest that holds
\* the new entry only.
C21_LoadNeverFails ==
    /\ load_error(World) = "none"
    /\ manifest.state # "ok" => load_skills(World) = << >>
    /\ manifest.state = "ok" => load_skills(World) = manifest.skills
    /\ manifest.state \notin {"ok", "missing"} =>
          \A i \in AddInputs :
             LET w1 == add_skill(World, i.key, i.version, i.path, i.dependencies,
                                 i.author)
             IN /\ w1.manifest.state = "ok"
                /\ Len(w1.manifest.skills) = 1
                /\ w1.manifest.skills[1].key = i.key

\* C22: add_skill and remove_skill of a present key leave a whole document
\* whose version field is the one the file had before; no step of a mutation
\* leaves a file that is not a complete manifest.
C22_MutationKeepsVersion ==
    [][(manifest.state = "ok"
           /\ result'.op \in {"add_skill", "remove_skill", "save_skills"}
           /\ manifest' # manifest)
         => /\ manifest'.state = "ok"
            /\ manifest'.version = manifest.version]_vars

\* C28: the remove_skill action raises FileNotFoundError when skilzy.json does
\* not exist and ValueError when it exists and the skill is not tracked; in
\* both cases no directory is deleted and the tracking file is not written.
C28_RemoveNeedsTrackingFile ==
    [][result'.op = "remove"
         => /\ manifest = Missing => result'.error = "FileNotFoundError"
            /\ (manifest # Missing /\ MatchedIndex(LoadedSkills, result'.key) = 0)
                  => result'.error = "ValueError"
            /\ result'.error \in {"FileNotFoundError", "ValueError"}
                  => UNCHANGED <<manifest, files, dirs>>]_vars

\* input i reaches the extraction of the archive
Extracts(i) ==
    /\ i.skill_name \in RegistrySkills
    /\ i.sc.fault = "none"
    /\ i.sc.shape # "badzip"
    /\ (i.overwrite \/ ~Exists(World, TargetDir(i)))

OneLevelBelow(shape) ==
    \E m \in ArchiveFiles(shape) : Len(m) = 2 /\ m[2] = MarkerFile

\* the names of the children of the directory that holds the archive's skill.json
NestedChildren(shape) == {m[2] : m \in {x \in ArchiveFiles(shape) : Len(x) >= 2}}

\* the materialised directory d is the flattened archive of the given shape
Flattened(w, d, name, shape) ==
    /\ {Last(p) : p \in Children(w, d)} = NestedChildren(shape)
    /\ (d \o <<MarkerFile>>) \in DOMAIN w.files
    /\ ("pkg" \notin NestedChildren(shape)) => ~Exists(w, d \o <<"pkg">>)
    /\ ~Exists(w, d \o TmpParts(name))
    /\ Normalise(w, d).ok
    /\ Normalise(w, d).w = w

\* C23: materialising an archive whose skill.json sits one level below the
\* archive root succeeds, in install and in a sync iteration, and leaves a
\* target directory whose direct children are exactly the children of that
\* nested directory, without the nested directory and without the temporary
\* archive file; the normalisation step applied again changes nothing.
C23_NestedArchiveFlattened ==
    /\ CanStart =>
          \A i \in InstallInputs :
              (Extracts(i) /\ OneLevelBelow(i.sc.shape))
                 => LET r == InstallOf(i) IN
                    /\ r.res.status = "ok"
                    /\ Flattened(r.w, TargetDir(i),
                                 SplitFirst(i.skill_name).name, i.sc.shape)
    /\ (AtEntry /\ ReinstallNeeded /\ ResolveAuthor(ThisEntry).ok)
          => \A shape \in {sh \in Shapes : OneLevelBelow(sh)} :
                LET r == SyncOne(World, sync.force, ThisEntry, "none", shape) IN
                /\ r.res.status = "success"
                /\ Flattened(r.w, ThisEntry.path, ResolveAuthor(ThisEntry).name, shape)

PipFaults == {"pip_pypdf", "pip_all"}

\* a call log without the exit statuses of the installer
Attempted(log) ==
    [k \in DOMAIN log |->
        IF log[k].call = "pip" THEN [log[k] EXCEPT !.version = 0] ELSE log[k]]

\* the dependencies the installer was run for, in the order of the runs
PipRuns(log) == SelectSeq(log, LAMBDA c : c.call = "pip")

\* two outcomes [w, res] that differ at most in the installer's exit statuses
SameButExit(r, r0) ==
    /\ r.res = r0.res
    /\ r.w.manifest = r0.w.manifest
    /\ r.w.files = r0.w.files
    /\ r.w.dirs = r0.w.dirs
    /\ Attempted(r.w.calls) = Attempted(r0.w.calls)

\* C25: when the installer fails for a declared dependency, install and a sync
\* iteration still run it for every declared dependency, in the declared
\* order, and end, with the same files, directories, manifest and result, as
\* they end when every dependency installs.
C25_PipFailureTolerated ==
    /\ CanStart =>
          \A i \in InstallInputs :
              i.sc.fault \in PipFaults
                 => LET r == InstallOf(i)
                        r0 == InstallOf([i EXCEPT !.sc.fault = "none"])
                        deps == RuntimeDeps(SplitFirst(i.skill_name).author,
                                            SplitFirst(i.skill_name).name)
                    IN /\ SameButExit(r, r0)
                       /\ Downloads(r.w.calls) # {}
                             => [k \in 1..Len(deps) |-> <<deps[k]>>]
                                   = [k \in DOMAIN PipRuns(r.w.calls) |->
                                         PipRuns(r.w.calls)[k].name]
    /\ AtEntry =>
          \A f \in PipFaults :
              LET r == SyncOne(World, sync.force, ThisEntry, f, "flat")
                  r0 == SyncOne(World, sync.force, ThisEntry, "none", "flat")
                  deps == ThisEntry.dependencies
              IN /\ SameButExit(r, r0)
                 /\ Downloads(r.w.calls) # {}
                       => [k \in 1..Len(deps) |-> <<deps[k]>>]
                             = [k \in DOMAIN PipRuns(r.w.calls) |->
                                   PipRuns(r.w.calls)[k].name]

\* C25 happens: install succeeded although the installer failed for the
\* first dependency, after running it for the second one as well
C25_Witness ==
    /\ result.op = "install"
    /\ result.status = "ok"
    /\ Len(PipRuns(calls)) = 2
    /\ PipRuns(calls)[1].version = 1
    /\ PipRuns(calls)[2].version = 0
    /\ Downloads(calls) # {}

\* the place of a step in the order install is to keep
Stage(s) ==
    CASE s = "initialize" -> 1
      [] s = "exists" -> 2
      [] s = "rmtree" -> 3
      [] s = "details" -> 4
      [] s = "version" -> 5
      [] s = "pip" -> 6
      [] s = "mkdir" -> 7
      [] s = "download" -> 8
      [] s = "extract" -> 9
      [] s = "normalise" -> 10
      [] s = "add_skill" -> 11
      [] OTHER -> 12

Has(t, s) == \E k \in DOMAIN t : t[k] = s

\* the steps of t are in the order of their stages, one step per stage except
\* for the installer, which runs once per dependency
InOrder(t) ==
    \A j, k \in DOMAIN t :
        j < k => \/ Stage(t[j]) < Stage(t[k])
                 \/ (t[j] = "pip" /\ t[k] = "pip")

\* C30: install takes its steps in this order: tracking-file initialisation,
\* existing-directory check, overwrite deletion, skill details, version
\* details, dependency installation, directory creation, download,
\* extraction, normalisation, tracking-store write.  The target directory is
\* created only after both metadata calls have succeeded, and the manifest
\* entry is written only after skill.json is directly under the target.
C30_InstallStepOrder ==
    CanStart =>
        \A i \in InstallInputs :
            LET r == InstallOf(i)
                t == r.w.steps
            IN /\ InOrder(t)
               /\ Has(t, "mkdir")
                     => /\ Has(t, "details") /\ Has(t, "version")
                        /\ r.res.at \notin {"details", "version"}
               /\ r.res.at \in {"details", "version"}
                     => ~Has(t, "mkdir") /\ ~Exists(r.w, TargetDir(i))
               /\ Has(t, "add_skill")
                     => /\ Has(t, "extract") /\ Has(t, "normalise")
                        /\ r.res.status = "ok"
                              => (TargetDir(i) \o <<MarkerFile>>) \in DOMAIN r.w.files
               /\ load_skills(r.w) # LoadedSkills => Has(t, "add_skill")
               /\ r.res.status = "ok"
                     => \A s \in {"exists", "details", "version", "mkdir", "download",
                                   "extract", "normalise", "add_skill"} : Has(t, s)

\* C30 happens: an install into a project that tracks another skill went
\* through the registry calls, both installer runs and the download, in this
\* order, and recorded its entry
C30_Witness ==
    /\ result.op = "install"
    /\ result.status = "ok"
    /\ [k \in DOMAIN calls |-> calls[k].call]
          = <<"details", "version", "pip", "pip", "download">>
    /\ (result.dir \o <<MarkerFile>>) \in DOMAIN files
    /\ \E k \in 1..Len(LoadedSkills) : LoadedSkills[k].key = result.key
    /\ \E k \in 1..Len(LoadedSkills) : LoadedSkills[k].key # result.key

\* directory d holds a freshly extracted package and nothing else
Clean(w, d) ==
    /\ {p \in DOMAIN w.files : IsPrefix(d, p)} = {d \o <<MarkerFile>>, d \o <<DocFile>>}
    /\ {p \in w.dirs : IsPrefix(d, p) /\ p # d} = {}

\* what a killed run left at d: a directory without skill.json whose files
\* all came from the registry
LeftBehind(w, d) ==
    /\ d \in w.dirs
    /\ (d \o <<MarkerFile>>) \notin DOMAIN w.files
    /\ \E p \in DOMAIN w.files : IsPrefix(d, p)
    /\ \A p \in DOMAIN w.files : IsPrefix(d, p) => w.files[p].kind # "user"

\* C29: the directory an interrupted install left behind does not stand in
\* the way of the next invocation: the same install is not refused because
\* the directory exists, sync skips the entry when the directory holds
\* skill.json and reinstalls it when it does not, and after a retry that
\* succeeds the directory holds the freshly extracted package only.
C29_InterruptedInstallRecovered ==
    [][/\ (result.op = "install" /\ result.status = "killed"
            /\ result'.op = "install" /\ result'.key = result.key
            /\ result'.dir = result.dir)
          => /\ result'.error # "FileExistsError"
             /\ result'.status = "ok" => Clean(World', result.dir)
       /\ (AtEntry /\ ~sync.force /\ LeftBehind(World, ThisEntry.path))
          => /\ result'.status # "skip"
             /\ result'.status = "success" => Clean(World', ThisEntry.path)]_vars

\* no credential is configured for the call that ended as r
NoCredential(r) == ~Truthy(r.api_key) /\ ~Truthy(r.env) /\ ~Truthy(r.stored)

\* r ended with one of the two "not authenticated" errors
NotAuthenticated(r) ==
    \/ r.error = "SkilzyAuthenticationError" /\ r.msg = "must be logged in"
    \/ r.error = "SkilzyError" /\ r.msg = "authentication required"

ReadOnlyOps == {"search", "details", "version", "download"}

AuthenticatedOps == {"publish", "me_skills", "publish_skill", "get_my_skills"}

\* C26 as stated: without a credential, publish and "my skills" (the actions
\* and the client methods) fail with a "not authenticated" error and send no
\* request; the read-only operations send their request without an
\* Authorization header.
C26_Unauthenticated ==
    [][NoCredential(result')
         => /\ result'.op \in AuthenticatedOps
                  => NotAuthenticated(result') /\ calls' = << >>
            /\ result'.op \in ReadOnlyOps
                  => /\ Len(calls') = 1
                     /\ calls'[1].auth = NoHeader]_vars

\* C26, amended: without a credential, publish and "my skills" send no
\* request and fail with a "not authenticated" error, except that the publish
\* action given a path that is not a file fails with FileNotFoundError; the
\* read-only operations send their request without an Authorization header.
C26_UnauthenticatedOrNoFile ==
    [][NoCredential(result')
         => /\ result'.op \in AuthenticatedOps
                  => /\ calls' = << >>
                     /\ IF result'.op = "publish" /\ result'.package = "missing"
                        THEN result'.error = "FileNotFoundError"
                        ELSE NotAuthenticated(result')
            /\ result'.op \in ReadOnlyOps
                  => /\ Len(calls') = 1
                     /\ calls'[1].auth = NoHeader]_vars

\* C26 happens: the publish action, given a package file, an empty
\* environment variable and nothing else, was refused without a request
C26_Witness ==
    /\ result.op = "publish"
    /\ result.package = "valid"
    /\ result.env = << >>
    /\ NoCredential(result)
    /\ result.error = "SkilzyAuthenticationError"
    /\ calls = << >>

\* the error kind the statuses are to map to
ErrorKind(status) ==
    CASE status = 404 -> "SkilzyNotFound"
      [] status = 401 -> "SkilzyAuthenticationError"
      [] status = 403 -> "SkilzyPermissionError"
      [] status = 409 -> "SkilzyConflictError"
      [] OTHER -> "SkilzyAPIError"

\* C27: every registry operation, the download included, reports a
\* non-success status by the error kind of that status, carrying the status;
\* a download that fails without an HTTP answer fails with an error whose
\* kind and status differ from those of every error raised for an HTTP answer.
C27_ErrorKinds ==
    [][(result'.op \in ReadOnlyOps \cup {"publish_skill", "get_my_skills"}
          /\ calls' # << >>)
         => /\ (result'.answer.kind = "http"
                   /\ ~(200 <= result'.answer.status /\ result'.answer.status < 300))
                  => /\ result'.error = ErrorKind(result'.answer.status)
                     /\ result'.code = result'.answer.status
            /\ (result'.op = "download" /\ result'.answer.kind # "http")
                  => \A n \in Statuses :
                        LET o == client_download(World, << >>, Http(n)).out IN
                        <<o.error, o.code>> # <<result'.error, result'.code>>]_vars

\* the first index of a non-empty set of indices
First(S) == CHOOSE i \in S : \A j \in S : i <= j

\* the keys of skills that are the given name after their first "/"
NamedLike(skills, name) ==
    {k \in 1..Len(skills) :
        \E n \in 1..Len(skills[k].key) :
            /\ skills[k].key[n] = Sep
            /\ \A j \in 1..(n - 1) : skills[k].key[j] # Sep
            /\ SubSeq(skills[k].key, n + 1, Len(skills[k].key)) = name}

\* the entry the given name stands for: the one under that very key, else
\* the first one in stored order whose key names it after the first "/"
Meant(skills, name) ==
    IF {k \in 1..Len(skills) : skills[k].key = name} # {}
    THEN First({k \in 1..Len(skills) : skills[k].key = name})
    ELSE IF NamedLike(skills, name) # {} THEN First(NamedLike(skills, name))
    ELSE 0

\* C31: the remove_skill action works on the entry under the exact key, else
\* on the first entry in manifest order whose key has the given name after its
\* first "/"; when forced or confirmed it deletes that entry's directory and
\* nothing outside it, and removes that key and no other from the manifest;
\* when the user declines it returns "cancelled" and changes nothing.
C31_RemoveMatches ==
    CanStart =>
        \A i \in RemoveInputs :
            LET r == actions_remove_skill(World, i.skill_name, i.force, i.answer)
                m == Meant(LoadedSkills, i.skill_name)
            IN m # 0 =>
                 IF i.force \/ i.answer
                 THEN /\ r.res.status = "success"
                      /\ r.res.key = LoadedSkills[m].key
                      /\ ~Exists(r.w, LoadedSkills[m].path)
                      /\ \A p \in DOMAIN files :
                            ~IsPrefix(LoadedSkills[m].path, p)
                               => (p \in DOMAIN r.w.files /\ r.w.files[p] = files[p])
                      /\ \A d \in dirs :
                            ~IsPrefix(LoadedSkills[m].path, d) => d \in r.w.dirs
                      /\ load_skills(r.w) = Others(LoadedSkills, LoadedSkills[m].key)
                      /\ r.w.manifest.state = "ok"
                 ELSE /\ r.res.status = "cancelled"
                      /\ r.w.manifest = manifest
                      /\ r.w.files = files
                      /\ r.w.dirs = dirs

\* C31 happens: of two entries named "pdf" the first was removed with its
\* directory, which lay inside the directory of the other; that directory and
\* its entry are still there
C31_Witness ==
    /\ result.op = "remove"
    /\ result.status = "success"
    /\ result.key = VendorPdf.key
    /\ LoadedSkills = <<VendorAll>>
    /\ (VendorAll.path \o <<MarkerFile>>) \in DOMAIN files
    /\ ~(VendorPdf.path \in dirs)

\* what both workflows are to mean by "installed": the entry's directory is
\* there, skill.json is directly inside it and the temporary archive is not
Installed(w, e) ==
    /\ e.path \in w.dirs
    /\ (e.path \o <<MarkerFile>>) \in DOMAIN w.files
    /\ \A p \in DOMAIN w.files :
          IsPrefix(e.path, p) => w.files[p].kind \notin {"archive", "partial"}

\* a sync iteration without force, whatever the registry would answer, leaves
\* entry e alone: counted as skipped, no call, no change on disk
Skipped(w, e) ==
    \A sc \in SyncScenarios :
        LET r == SyncOne([w EXCEPT !.calls = << >>], FALSE, e, sc.fault, sc.shape)
        IN /\ r.res.status = "skip"
           /\ r.w.calls = << >>
           /\ r.w.files = w.files
           /\ r.w.dirs = w.dirs

\* C32: right after a successful install the entry it recorded is installed,
\* and a sync iteration without force skips it without a registry call; when
\* the loop of sync has ended, every entry it counted as success is installed,
\* and a sync iteration without force skips it.
C32_InstalledMeansSkipped ==
    /\ CanStart =>
          \A i \in InstallInputs :
              LET r == InstallOf(i)
                  skills == load_skills(r.w)
              IN r.res.status = "ok" =>
                   \A k \in 1..Len(skills) :
                       skills[k].key = i.skill_name
                          => Installed(r.w, skills[k]) /\ Skipped(r.w, skills[k])
    /\ AfterLoop =>
          \A k \in 1..Len(sync.snap) :
              sync.counted[k] = "success"
                 => Installed(World, sync.snap[k]) /\ Skipped(World, sync.snap[k])

\* C33: no step of remove_skill or of sync deletes the tracking file, and the
\* files and directories such a step deletes all lie in the directory of a
\* tracked entry that is strictly below the project root.
C33_RootNeverDeleted ==
    [][result'.op \in {"remove", "sync_entry"}
         => LET tracked == IF result'.op = "remove" THEN LoadedSkills ELSE sync.snap
            IN /\ TrackingFileExists(World) => manifest' # Missing
               /\ \A p \in (DOMAIN files) \cup dirs :
                     ~(p \in DOMAIN files' \/ p \in dirs')
                        => \E k \in 1..Len(tracked) :
                              /\ tracked[k].path # Root
                              /\ IsPrefix(tracked[k].path, p)]_vars

\* C34: when install ends with an error, every entry tracked before the call
\* is tracked unchanged after it, and where its installation directory was
\* there before the call it is there afterwards with the same contents.
C34_FailedInstallKeepsInstalled ==
    [][(result'.op = "install" /\ result'.status = "error")
         => \A k \in 1..Len(LoadedSkills) :
               /\ \E j \in 1..Len(LoadedSkills') : LoadedSkills'[j] = LoadedSkills[k]
               /\ LoadedSkills[k].path \in dirs
                     => /\ LoadedSkills[k].path \in dirs'
                        /\ Tree(World', LoadedSkills[k].path)
                              = Tree(World, LoadedSkills[k].path)]_vars

\* every tracked entry is installed, and a sync without force skips it
AllInstalled(w) ==
    \A k \in 1..Len(load_skills(w)) :
        Installed(w, load_skills(w)[k]) /\ Skipped(w, load_skills(w)[k])

\* the step is an install or a remove_skill that returns success
Succeeds(res) ==
    \/ res.op = "install" /\ res.status = "ok"
    \/ res.op = "remove" /\ res.status = "success"

\* C35: a successful install or remove_skill that follows nothing, or another
\* successful install or remove_skill, and starts with every tracked entry
\* installed, leaves every tracked entry installed: its directory is there
\* with skill.json directly inside, and a sync without force skips it.
C35_TrackedMeansInstalled ==
    [][(Succeeds(result') /\ (Succeeds(result) \/ result = NoRes)
          /\ AllInstalled(World))
         => AllInstalled(World')]_vars

====
